---- MODULE Spec2Model ----
\* Scene-runtime synchronization core of bevy-explorer: the CRDT component
\* store, the message-stream codec, the scene-side send operation and the
\* per-scene live-entity table.
EXTENDS Integers, Sequences, FiniteSets, TLC

\* ------------------------------------------------------------------ bounds
\* largest timestamp a write carries
MaxTs == 2
\* number of store operations in one run of the store specification
MaxOps == 4
\* number of updates in the set delivered to the two replicas
MaxUpdates == 3
\* number of records in one batch handed to op_crdt_send_to_renderer
MaxBatch == 2
\* number of batches one run of the engine specification sends
MaxSends == 2
\* number of payload bytes of a record handed to the codec
MaxPayload == 2

U16_MAX == 65535

\* ------------------------------------------------------------- wire format
\* fixed-size record header: length u32, entity_id u16, entity_generation u16,
\* component_id u32, crdt_kind u8
CRDT_HEADER_SIZE == 13
\* LWW payloads start with an 8-byte timestamp
TIMESTAMP_SIZE == 8
KIND_LWW == 0
KIND_GO == 1

Byte == 0..255

None == [is_some |-> FALSE]
Some(v) == [is_some |-> TRUE, v |-> v]

RECURSIVE BeBytes(_, _)
\* n big-endian bytes of the unsigned integer x
BeBytes(x, n) ==
    IF n = 0 THEN <<>> ELSE BeBytes(x \div 256, n - 1) \o <<x % 256>>

RECURSIVE LeBytes(_, _)
\* n little-endian bytes of the unsigned integer x
LeBytes(x, n) ==
    IF n = 0 THEN <<>> ELSE <<x % 256>> \o LeBytes(x \div 256, n - 1)

RECURSIVE LeValue(_, _, _)
\* the unsigned integer held little-endian in the n bytes of buf from position at
LeValue(buf, at, n) ==
    IF n = 0 THEN 0 ELSE buf[at] + 256 * LeValue(buf, at + 1, n - 1)

\* a wire record: [entity |-> <<id, generation>>, component, kind, payload]
EncodeRecord(r) ==
    LeBytes(Len(r.payload), 4) \o LeBytes(r.entity[1], 2) \o LeBytes(r.entity[2], 2)
        \o LeBytes(r.component, 4) \o <<r.kind>> \o r.payload

\* a cursor that takes any crdt_kind byte for a record
DecodeRecordAnyKind(buf) ==
    IF Len(buf) < CRDT_HEADER_SIZE
    THEN [tag |-> "insufficient", consumed |-> 0]
    ELSE LET length == LeValue(buf, 1, 4)
         IN  IF length > Len(buf) - CRDT_HEADER_SIZE
             THEN [tag |-> "corrupt", consumed |-> 0]
             ELSE [tag |-> "record",
                   consumed |-> CRDT_HEADER_SIZE + length,
                   record |-> [entity |-> <<LeValue(buf, 5, 2), LeValue(buf, 7, 2)>>,
                               component |-> LeValue(buf, 9, 4),
                               kind |-> buf[CRDT_HEADER_SIZE],
                               payload |-> SubSeq(buf, CRDT_HEADER_SIZE + 1,
                                                  CRDT_HEADER_SIZE + length)]]

\* one pull of the cursor over buf
DecodeRecord(buf) ==
    IF Len(buf) < CRDT_HEADER_SIZE
    THEN [tag |-> "insufficient", consumed |-> 0]
    ELSE LET length == LeValue(buf, 1, 4)
             kind == buf[CRDT_HEADER_SIZE]
         IN  IF length > Len(buf) - CRDT_HEADER_SIZE
             THEN [tag |-> "corrupt", consumed |-> 0]
             ELSE IF kind \notin {KIND_LWW, KIND_GO}
             THEN [tag |-> "corrupt", consumed |-> 0]
             ELSE [tag |-> "record",
                   consumed |-> CRDT_HEADER_SIZE + length,
                   record |-> [entity |-> <<LeValue(buf, 5, 2), LeValue(buf, 7, 2)>>,
                               component |-> LeValue(buf, 9, 4),
                               kind |-> kind,
                               payload |-> SubSeq(buf, CRDT_HEADER_SIZE + 1,
                                                  CRDT_HEADER_SIZE + length)]]

\* ---------------------------------------------------------------- CrdtStore
\* scene entity ids and component ids the store specifications write to
Entities == {<<1, 0>>, <<513, 0>>}
\* the id of a component registered as LWW (SceneComponentId::TWEEN)
LwwComponent == 1
\* the id of a component registered as GO (SceneComponentId::AVATAR_EMOTE_COMMAND)
GoComponent == 258
\* a component id no interface is registered for
UnknownComponent == GoComponent + 1
\* CrdtComponentInterfaces: the registered CRDT type of each known component
Interfaces == (LwwComponent :> "LWW") @@ (GoComponent :> "GO")
LwwKeys == {<<LwwComponent, e>> : e \in Entities}
GoKeys == {<<GoComponent, e>> : e \in Entities}
Datas == {<<>>, <<5>>, <<6, 7>>}

EmptyStore == [last_write |-> <<>>, updates |-> {}, go |-> <<>>, go_new |-> <<>>]

Put(f, k, v) == [x \in (DOMAIN f) \cup {k} |-> IF x = k THEN v ELSE f[x]]
Restrict(f, S) == [x \in (DOMAIN f) \cap S |-> f[x]]

\* a register that keeps the first of two writes with equal timestamps
LwwAcceptsStrict(store, key, timestamp) ==
    \/ key \notin DOMAIN store.last_write
    \/ timestamp > store.last_write[key].timestamp

\* a register that takes every write, whatever its timestamp
LwwAcceptsAny(store, key, timestamp) == TRUE

\* accepted iff no entry exists yet or the incoming timestamp is not lower
LwwAccepts(store, key, timestamp) ==
    \/ key \notin DOMAIN store.last_write
    \/ timestamp >= store.last_write[key].timestamp

\* apply_lww(component, entity, timestamp, payload_or_tombstone); key is
\* <<component, entity>>, data is None (tombstone) or Some(bytes)
ApplyLww(store, key, timestamp, data) ==
    IF LwwAccepts(store, key, timestamp)
    THEN [store EXCEPT
            !.last_write = Put(@, key, [timestamp |-> timestamp,
                                        is_some |-> data.is_some,
                                        data |-> IF data.is_some THEN data.v ELSE <<>>]),
            !.updates = @ \cup {key}]
    ELSE store

ListOf(f, k) == IF k \in DOMAIN f THEN f[k] ELSE <<>>

\* apply_go(component, entity, payload): always accepted, appended
ApplyGo(store, key, data) ==
    [store EXCEPT !.go = Put(@, key, Append(ListOf(@, key), data)),
                  !.go_new = Put(@, key, Append(ListOf(@, key), data))]

\* take_updates: the batch that is returned ...
TakenUpdates(store) ==
    [lww |-> Restrict(store.last_write, store.updates), go |-> store.go_new]

\* a drain that forgets to clear the GO accumulator
AfterTakeKeepsGo(store) == [store EXCEPT !.updates = {}]

\* ... and the store it leaves
AfterTake(store) == [store EXCEPT !.updates = {}, !.go_new = <<>>]

Surviving(keys, died) == {k \in keys : k[2] \notin died}

\* clean_up(died): drop every entry of the died entities
CleanUp(store, died) ==
    [last_write |-> Restrict(store.last_write, Surviving(DOMAIN store.last_write, died)),
     updates |-> Surviving(store.updates, died),
     go |-> Restrict(store.go, Surviving(DOMAIN store.go, died)),
     go_new |-> Restrict(store.go_new, Surviving(DOMAIN store.go_new, died))]

\* ------------------------------------------------- state of the specifications
VARIABLES
    \* one LWW register under a sequence of apply_lww calls
    lww_key, lww_store, calls, lww_last,
    \* two replicas that are delivered the same set of updates
    delivered_set, replica, undelivered,
    \* one record through the codec
    rec, wire, decoded, codec_pc, tampered,
    \* the scene-side send operation of every scene
    scene_store, response, sent, sends, receiver_dropped, op_state, op_panic,
    \* the scene-side receive operation of one scene: the channel from the
    \* renderer, the broadcast channel of the global updates, the op's position,
    \* what the OpState holds, the returned list and (history) what recv() gave
    to_scene, sender_dropped, global_chan, lagged, global_closed, global_sends,
    recv_pc, recvs, shutting_down, renderer_store, recv_results, recv_got,
    \* the live-entity table of one RendererSceneContext
    live_entities, beyond, fault, reuse, seen_dead,
    \* one store under apply_lww, apply_go and take_updates calls
    crdt_store, taken, go_appended, go_returned, due, due_at_take, last_ops

VARIABLES
    \* the scene root entities, LiveScenes, ScenePointers, the LoadSceneEvent
    \* queue and the Locals of process_scene_lifecycle
    scene_ents, live_scenes, pointers, load_events,
    current_config, realm_scenes, pending_realm_scenes, pointer_request, panicked,
    \* history: the parcels of the lookup whose error the last tick has read
    failed_lookup,
    \* history: the lookup under way was running when a realm change was processed
    stale_lookup

VARIABLES
    \* the Locals of connect_wallet, the wallet, the profile, the dialog entity
    \* on screen, the channel of its buttons, config.json, the last toast
    wallet_address, login_task, login_receiver, login_chan, login_dialog,
    dialog_shown, current_profile, config_login, login_toast, exited,
    \* the placement loop of layout_scene_ui: its two maps, its flag, its
    \* position and (history) the collected nodes, the placements in order
    \* and the number of passes
    collected, unprocessed_uis, processed_nodes, modified, layout_pc,
    placements, passes

loginVars == <<wallet_address, login_task, login_receiver, login_chan, login_dialog,
               dialog_shown, current_profile, config_login, login_toast, exited>>
uiVars == <<collected, unprocessed_uis, processed_nodes, modified, layout_pc,
            placements, passes>>
storeVars == <<crdt_store, taken, go_appended, go_returned, due, due_at_take, last_ops>>
tableVars == <<live_entities, beyond, fault, reuse, seen_dead>>
engineVars == <<scene_store, response, sent, sends, receiver_dropped, op_state, op_panic>>
codecVars == <<rec, wire, decoded, codec_pc, tampered>>
convVars == <<delivered_set, replica, undelivered>>
lwwVars == <<lww_key, lww_store, calls, lww_last>>
recvVars == <<to_scene, sender_dropped, global_chan, lagged, global_closed, global_sends,
              recv_pc, recvs, shutting_down, renderer_store, recv_results, recv_got>>
sceneVars == <<scene_ents, live_scenes, pointers, load_events,
               current_config, realm_scenes, pending_realm_scenes, pointer_request, panicked,
               failed_lookup, stale_lookup>>
vars == <<lwwVars, convVars, storeVars, codecVars, engineVars, tableVars, sceneVars, recvVars, loginVars, uiVars>>
\* what the actions of one specification leave alone
notLww == <<convVars, storeVars, codecVars, engineVars, tableVars, sceneVars, recvVars, loginVars, uiVars>>
notConv == <<lwwVars, storeVars, codecVars, engineVars, tableVars, sceneVars, recvVars, loginVars, uiVars>>
notStore == <<lwwVars, convVars, codecVars, engineVars, tableVars, sceneVars, recvVars, loginVars, uiVars>>
notCodec == <<lwwVars, convVars, storeVars, engineVars, tableVars, sceneVars, recvVars, loginVars, uiVars>>
notEngine == <<lwwVars, convVars, storeVars, codecVars, tableVars, sceneVars, recvVars, loginVars, uiVars>>
notTable == <<lwwVars, convVars, storeVars, codecVars, engineVars, sceneVars, recvVars, loginVars, uiVars>>
notScene == <<lwwVars, convVars, storeVars, codecVars, engineVars, tableVars, recvVars, loginVars, uiVars>>
notRecv == <<lwwVars, convVars, storeVars, codecVars, engineVars, tableVars, sceneVars, loginVars, uiVars>>
notLogin == <<lwwVars, convVars, storeVars, codecVars, engineVars, tableVars, sceneVars, recvVars, uiVars>>
notUi == <<lwwVars, convVars, storeVars, codecVars, engineVars, tableVars, sceneVars, recvVars, loginVars>>

OptDatas == {None} \cup {Some(d) : d \in Datas \ {<<>>}}

\* ------------------------------------------------ apply_lww on one register
LwwIdle ==
    /\ lww_key = <<LwwComponent, <<1, 0>>>>
    /\ lww_store = EmptyStore
    /\ calls = <<>>
    /\ lww_last = [accepted |-> FALSE, before |-> EmptyStore]

LwwInit ==
    /\ lww_key \in LwwKeys
    /\ lww_store = EmptyStore
    /\ calls = <<>>
    /\ lww_last = [accepted |-> FALSE, before |-> EmptyStore]

LwwCall(timestamp, data) ==
    /\ Len(calls) < MaxOps
    /\ lww_store' = ApplyLww(lww_store, lww_key, timestamp, data)
    /\ calls' = Append(calls, [timestamp |-> timestamp, data |-> data])
    /\ lww_last' = [accepted |-> LwwAccepts(lww_store, lww_key, timestamp),
                    before |-> lww_store]
    /\ UNCHANGED <<lww_key, notLww>>

LwwNext == \E timestamp \in 0..MaxTs, data \in OptDatas : LwwCall(timestamp, data)

\* -------------------------------------- two replicas, one set of updates
ConvKeyLww == <<LwwComponent, <<1, 0>>>>
ConvKeyGo == <<GoComponent, <<1, 0>>>>

UpdateUniverse ==
    {[kind |-> "LWW", key |-> ConvKeyLww, timestamp |-> t, data |-> d] :
        t \in 0..MaxTs, d \in OptDatas}
    \cup {[kind |-> "GO", key |-> ConvKeyGo, timestamp |-> 0, data |-> Some(d)] :
            d \in Datas \ {<<>>}}

\* what a replica does with one update it is delivered
ApplyUpdate(store, u) ==
    IF u.kind = "LWW"
    THEN ApplyLww(store, u.key, u.timestamp, u.data)
    ELSE ApplyGo(store, u.key, u.data.v)

ConvIdle ==
    /\ delivered_set = {}
    /\ replica = [r \in {"a", "b"} |-> EmptyStore]
    /\ undelivered = [r \in {"a", "b"} |-> {}]

ConvInit ==
    /\ delivered_set \in {U \in SUBSET UpdateUniverse : Cardinality(U) <= MaxUpdates}
    /\ replica = [r \in {"a", "b"} |-> EmptyStore]
    /\ undelivered = [r \in {"a", "b"} |-> delivered_set]

Deliver(r, u) ==
    /\ u \in undelivered[r]
    /\ replica' = [replica EXCEPT ![r] = ApplyUpdate(@, u)]
    /\ undelivered' = [undelivered EXCEPT ![r] = @ \ {u}]
    /\ UNCHANGED <<delivered_set, notConv>>

ConvNext == \E r \in {"a", "b"}, u \in UpdateUniverse : Deliver(r, u)

Stored(store) == [last_write |-> store.last_write, go |-> store.go]

\* C1: two replicas that started empty and were delivered the whole of the
\* same set of updates, each in its own order, hold the same stored state.
C1_Convergence ==
    (undelivered["a"] = {} /\ undelivered["b"] = {})
        => Stored(replica["a"]) = Stored(replica["b"])

\* the part of C1 that the tie rule breaks: LWW writes alone
C1_LwwConvergence ==
    (undelivered["a"] = {} /\ undelivered["b"] = {})
        => replica["a"].last_write = replica["b"].last_write

\* the part of C1 that the ordered GO list breaks: GO appends alone
C1_GoConvergence ==
    (undelivered["a"] = {} /\ undelivered["b"] = {})
        => replica["a"].go = replica["b"].go

\* ------------------------- a store under apply_lww, apply_go, take_updates
EmptyBatch == [lww |-> <<>>, go |-> <<>>]

\* go_appended: every payload handed to apply_go, per key, in call order;
\* go_returned: the GO lists of all returned batches, per key, concatenated;
\* due: the last accepted write of each key written since the previous drain;
\* last_ops: the names of the calls made so far
StoreInit ==
    /\ crdt_store = EmptyStore
    /\ taken = EmptyBatch
    /\ go_appended = [k \in GoKeys |-> <<>>]
    /\ go_returned = [k \in GoKeys |-> <<>>]
    /\ due = <<>>
    /\ due_at_take = <<>>
    /\ last_ops = <<>>

StoreApplyLww(key, timestamp, data) ==
    /\ Len(last_ops) < MaxOps
    /\ crdt_store' = ApplyLww(crdt_store, key, timestamp, data)
    /\ due' = IF LwwAccepts(crdt_store, key, timestamp)
              THEN Put(due, key, [timestamp |-> timestamp, data |-> data])
              ELSE due
    /\ last_ops' = Append(last_ops, "apply_lww")
    /\ UNCHANGED <<taken, go_appended, go_returned, due_at_take, notStore>>

StoreApplyGo(key, data) ==
    /\ Len(last_ops) < MaxOps
    /\ crdt_store' = ApplyGo(crdt_store, key, data)
    /\ go_appended' = [go_appended EXCEPT ![key] = Append(@, data)]
    /\ last_ops' = Append(last_ops, "apply_go")
    /\ UNCHANGED <<taken, go_returned, due, due_at_take, notStore>>

StoreTakeUpdates ==
    /\ Len(last_ops) < MaxOps
    /\ taken' = TakenUpdates(crdt_store)
    /\ crdt_store' = AfterTake(crdt_store)
    /\ go_returned' = [k \in GoKeys |-> go_returned[k] \o ListOf(taken'.go, k)]
    /\ due_at_take' = due
    /\ due' = <<>>
    /\ last_ops' = Append(last_ops, "take_updates")
    /\ UNCHANGED <<go_appended, notStore>>

StoreNext ==
    \/ \E key \in LwwKeys, timestamp \in 0..MaxTs, data \in OptDatas :
            StoreApplyLww(key, timestamp, data)
    \/ \E key \in GoKeys, data \in Datas \ {<<>>} : StoreApplyGo(key, data)
    \/ StoreTakeUpdates

\* ------------------------------------------------- one record, the codec
RECURSIVE SeqsUpTo(_, _)
\* the sequences over S of length at most n
SeqsUpTo(S, n) ==
    IF n = 0 THEN {<<>>}
    ELSE LET shorter == SeqsUpTo(S, n - 1)
         IN  shorter \cup {Append(q, x) : q \in shorter, x \in S}

\* a u32 with all four bytes in use: 0x7FFFFFFF, the largest integer TLC holds
BIG_U32 == 127 * 16777216 + 16777215

RecordSet ==
    [entity : {0, 513, U16_MAX} \X {0, 258},
     component : {LwwComponent, GoComponent, BIG_U32},
     kind : {KIND_LWW, KIND_GO},
     payload : SeqsUpTo({0, 255}, MaxPayload)]

NoResult == [tag |-> "none", consumed |-> 0]

CodecIdle ==
    /\ rec = [entity |-> <<0, 0>>, component |-> LwwComponent, kind |-> KIND_LWW,
              payload |-> <<>>]
    /\ wire = <<>>
    /\ decoded = NoResult
    /\ codec_pc = "input"
    /\ tampered = "none"

CodecInit ==
    /\ rec \in RecordSet
    /\ wire = <<>>
    /\ decoded = NoResult
    /\ codec_pc = "input"
    /\ tampered = "none"

\* the record is written, followed by whatever the buffer holds after it
Encode(trailing) ==
    /\ codec_pc = "input"
    /\ wire' = EncodeRecord(rec) \o trailing
    /\ codec_pc' = "encoded"
    /\ UNCHANGED <<rec, decoded, tampered, notCodec>>

\* the buffer is cut short
Truncate(n) ==
    /\ codec_pc = "encoded" /\ tampered = "none"
    /\ n < Len(wire)
    /\ wire' = SubSeq(wire, 1, n)
    /\ tampered' = "truncated"
    /\ UNCHANGED <<rec, decoded, codec_pc, notCodec>>

\* the crdt_kind byte of the header is overwritten
SetKind(k) ==
    /\ codec_pc = "encoded" /\ tampered = "none"
    /\ wire' = [wire EXCEPT ![CRDT_HEADER_SIZE] = k]
    /\ tampered' = "kind"
    /\ UNCHANGED <<rec, decoded, codec_pc, notCodec>>

\* the length field of the header is overwritten by a larger length
SetLength(length) ==
    /\ codec_pc = "encoded" /\ tampered = "none"
    /\ length > Len(rec.payload)
    /\ wire' = LeBytes(length, 4) \o SubSeq(wire, 5, Len(wire))
    /\ tampered' = "length"
    /\ UNCHANGED <<rec, decoded, codec_pc, notCodec>>

Decode ==
    /\ codec_pc = "encoded"
    /\ decoded' = DecodeRecord(wire)
    /\ codec_pc' = "decoded"
    /\ UNCHANGED <<rec, wire, tampered, notCodec>>

CodecNext ==
    \/ \E trailing \in {<<>>, <<9, 9>>} : Encode(trailing)
    \/ \E n \in 0..(CRDT_HEADER_SIZE + MaxPayload + 2) : Truncate(n)
    \/ \E k \in {2, 255} : SetKind(k)
    \/ \E length \in {1, 2, 3, 256, BIG_U32} : SetLength(length)
    \/ Decode

\* --------------------------------------------- op_crdt_send_to_renderer
Scenes == {1, 2}

Rest(buf, consumed) == SubSeq(buf, consumed + 1, Len(buf))

\* the LWW payload: an 8-byte timestamp, then the value; no value is a delete
LwwTimestamp(payload) == LeValue(payload, 1, TIMESTAMP_SIZE)
LwwData(payload) ==
    IF Len(payload) = TIMESTAMP_SIZE THEN None ELSE Some(Rest(payload, TIMESTAMP_SIZE))

RECURSIVE ProcessSkippingCorrupt(_, _)
\* a decoding loop that steps over a record with an unknown crdt_kind
ProcessSkippingCorrupt(store, buf) ==
    LET d == DecodeRecordAnyKind(buf)
    IN  IF d.tag = "insufficient" THEN [store |-> store, error |-> FALSE]
        ELSE IF d.tag = "corrupt" THEN [store |-> store, error |-> TRUE]
        ELSE LET r == d.record
                 key == <<r.component, r.entity>>
                 rest == Rest(buf, d.consumed)
             IN  IF r.kind \notin {KIND_LWW, KIND_GO} \/ r.component \notin DOMAIN Interfaces
                 THEN ProcessSkippingCorrupt(store, rest)
                 ELSE IF Interfaces[r.component] = "GO"
                 THEN ProcessSkippingCorrupt(ApplyGo(store, key, r.payload), rest)
                 ELSE IF Len(r.payload) < TIMESTAMP_SIZE
                 THEN [store |-> store, error |-> TRUE]
                 ELSE ProcessSkippingCorrupt(
                        ApplyLww(store, key, LwwTimestamp(r.payload), LwwData(r.payload)),
                        rest)

RECURSIVE ProcessMessageStream(_, _)
\* process_message_stream: decode the batch record by record and merge each
\* record as it is decoded; a corrupt record ends the batch with an error,
\* insufficient data ends it without one, an unknown component id is ignored
ProcessMessageStream(store, buf) ==
    LET d == DecodeRecord(buf)
    IN  IF d.tag = "insufficient" THEN [store |-> store, error |-> FALSE]
        ELSE IF d.tag = "corrupt" THEN [store |-> store, error |-> TRUE]
        ELSE LET r == d.record
                 key == <<r.component, r.entity>>
                 rest == Rest(buf, d.consumed)
             IN  IF r.component \notin DOMAIN Interfaces
                 THEN ProcessMessageStream(store, rest)
                 ELSE IF Interfaces[r.component] = "GO"
                 THEN ProcessMessageStream(ApplyGo(store, key, r.payload), rest)
                 ELSE IF Len(r.payload) < TIMESTAMP_SIZE
                 THEN [store |-> store, error |-> TRUE]
                 ELSE ProcessMessageStream(
                        ApplyLww(store, key, LwwTimestamp(r.payload), LwwData(r.payload)),
                        rest)

\* the op with take_updates and clean_up in the wrong order
SendResultTakeFirst(store, messages, died) ==
    LET processed == ProcessMessageStream(store, messages)
    IN  [updates |-> TakenUpdates(processed.store),
         store |-> CleanUp(AfterTake(processed.store), died),
         error |-> processed.error]

\* the store part of op_crdt_send_to_renderer: process the batch, clean up
\* the entities of the census that died, then take the updates
SendResult(store, messages, died) ==
    LET processed == ProcessMessageStream(store, messages)
        cleaned == CleanUp(processed.store, died)
    IN  [updates |-> TakenUpdates(cleaned),
         store |-> AfterTake(cleaned),
         error |-> processed.error]

\* what a scene puts into a batch
E1 == <<1, 0>>
E2 == <<513, 0>>
Items ==
    {[k |-> "lww", entity |-> E1, timestamp |-> 1, data |-> Some(<<5>>)],
     [k |-> "lww", entity |-> E1, timestamp |-> MaxTs, data |-> None],
     [k |-> "go", entity |-> E2, timestamp |-> 0, data |-> Some(<<6, 7>>)],
     [k |-> "unknown", entity |-> E2, timestamp |-> 0, data |-> Some(<<5>>)],
     [k |-> "badkind", entity |-> E1, timestamp |-> 0, data |-> Some(<<5>>)]}

\* the bytes of one item
ItemBytes(item) ==
    CASE item.k = "lww" ->
            EncodeRecord([entity |-> item.entity, component |-> LwwComponent,
                          kind |-> KIND_LWW,
                          payload |-> LeBytes(item.timestamp, TIMESTAMP_SIZE)
                                      \o (IF item.data.is_some THEN item.data.v ELSE <<>>)])
      [] item.k = "go" ->
            EncodeRecord([entity |-> item.entity, component |-> GoComponent,
                          kind |-> KIND_GO, payload |-> item.data.v])
      [] item.k = "unknown" ->
            EncodeRecord([entity |-> item.entity, component |-> UnknownComponent,
                          kind |-> KIND_GO, payload |-> item.data.v])
      [] OTHER ->
            EncodeRecord([entity |-> item.entity, component |-> GoComponent,
                          kind |-> 9, payload |-> item.data.v])

RECURSIVE BatchBytes(_)
BatchBytes(items) ==
    IF items = <<>> THEN <<>> ELSE ItemBytes(Head(items)) \o BatchBytes(Tail(items))

\* nothing is in the channel to the renderer
NoResponse == [scene |-> 0, census |-> [died |-> {}], updates |-> EmptyBatch]

\* sent: the last call of the op (its scene, the items of its batch, the
\* stores before it, whether decoding the batch logged an error), kept
\* until the renderer has taken the response
NoSend == [scene |-> 0, items |-> <<>>, before |-> [s \in Scenes |-> EmptyStore],
           error |-> FALSE]

\* what op_crdt_send_to_renderer takes out of the OpState of a scene and puts
\* back at its end
SceneSide == {"CrdtContext", "CrdtStore", "CrdtComponentInterfaces"}

EngineInit ==
    /\ scene_store = [s \in Scenes |-> EmptyStore]
    /\ response = NoResponse
    /\ sent = NoSend
    /\ sends = 0
    /\ receiver_dropped = FALSE
    /\ op_state = [s \in Scenes |-> SceneSide]
    /\ op_panic = {}

\* SyncSender::send: Err once the receiver of the channel is gone
SendFails == receiver_dropped

\* op_crdt_send_to_renderer of scene s on a batch; died is what the census
\* of the scene's CrdtContext holds as died after the batch. All scenes send
\* into one bounded channel, here of capacity one.
\* A send into a channel without receiver returns Err and expect() panics:
\* the op unwinds with the CrdtContext, the CrdtStore and the component
\* interfaces taken out of the OpState and never put back (the store that the
\* unwinding drops is shown as the empty one).
SendToRenderer(s, items, died) ==
    /\ sends < MaxSends
    /\ s \notin op_panic
    /\ IF SendFails
       THEN /\ op_panic' = op_panic \cup {s}
            /\ op_state' = [op_state EXCEPT ![s] = {}]
            /\ scene_store' = [scene_store EXCEPT ![s] = EmptyStore]
            /\ UNCHANGED <<response, sent>>
       ELSE /\ response = NoResponse
            /\ \E result \in {SendResult(scene_store[s], BatchBytes(items), died)} :
                   /\ scene_store' = [scene_store EXCEPT ![s] = result.store]
                   /\ response' = [scene |-> s, census |-> [died |-> died],
                                   updates |-> result.updates]
                   /\ sent' = [scene |-> s, items |-> items, before |-> scene_store,
                               error |-> result.error]
            /\ UNCHANGED <<op_state, op_panic>>
    /\ sends' = sends + 1
    /\ UNCHANGED <<receiver_dropped, notEngine>>

\* the renderer takes the response out of the channel
RendererReceives ==
    /\ response # NoResponse
    /\ response' = NoResponse
    /\ sent' = NoSend
    /\ UNCHANGED <<scene_store, sends, receiver_dropped, op_state, op_panic, notEngine>>

\* the renderer side drops the receiver of the channel, and with it the
\* response that waits in the channel; a send that waits for room in the
\* channel is woken and fails like one issued afterwards
RendererDrops ==
    /\ ~receiver_dropped
    /\ receiver_dropped' = TRUE
    /\ response' = NoResponse
    /\ sent' = NoSend
    /\ UNCHANGED <<scene_store, sends, op_state, op_panic, notEngine>>

EngineNext ==
    \/ \E s \in Scenes, items \in SeqsUpTo(Items, MaxBatch), died \in SUBSET {E1, E2} :
            SendToRenderer(s, items, died)
    \/ RendererReceives
    \/ RendererDrops

\* --------------------------------------------- op_crdt_recv_from_renderer
\* number of calls of the op in one run
MaxRecvs == 2
\* number of global updates that are broadcast in one run
MaxGlobal == 2
\* capacity of the renderer-to-scene channel and of the broadcast channel of
\* the global updates, in messages
ChanCap == 1
GlobalCap == 1

\* the batches the renderer sends: writes to two LWW registers, one of them a
\* tombstone, and a GO list of two items; one later write; an empty batch
RendererBatches ==
    {[lww |-> Put(Put(<<>>, <<LwwComponent, E1>>,
                      [timestamp |-> 1, is_some |-> TRUE, data |-> <<5>>]),
                  <<LwwComponent, E2>>,
                  [timestamp |-> 2, is_some |-> FALSE, data |-> <<>>]),
      go |-> Put(<<>>, <<GoComponent, E2>>, <<<<6>>, <<7>>>>)],
     [lww |-> Put(<<>>, <<LwwComponent, E1>>,
                  [timestamp |-> 0, is_some |-> TRUE, data |-> <<6, 7>>]),
      go |-> <<>>],
     EmptyBatch}
GlobalUpdates == {<<101>>, <<102>>}

\* the records of the returned list
PutComponent(key, timestamp, data) ==
    [op |-> IF data.is_some THEN "put" ELSE "delete",
     key |-> key, timestamp |-> timestamp,
     data |-> IF data.is_some THEN data.v ELSE <<>>]
AppendComponent(key, data) ==
    [op |-> "append", key |-> key, timestamp |-> 0, data |-> data]
GlobalRecord(bytes) == [op |-> "global", key |-> <<0, <<0, 0>>>>, timestamp |-> 0, data |-> bytes]

\* the orders in which a HashMap may be iterated
Orders(S) ==
    {order \in [1..Cardinality(S) -> S] :
        \A i, j \in 1..Cardinality(S) : i # j => order[i] # order[j]}

\* for (entity_id, data) in lww.last_write.iter(): one record per entry
PutRecords(batch, order) ==
    [i \in 1..Len(order) |->
        PutComponent(order[i], batch.lww[order[i]].timestamp,
                     IF batch.lww[order[i]].is_some
                     THEN Some(batch.lww[order[i]].data) ELSE None)]

\* for item in data.iter(): one record per item of every GO list
RECURSIVE AppendRecords(_, _)
AppendRecords(batch, order) ==
    IF order = <<>> THEN <<>>
    ELSE [i \in 1..Len(batch.go[Head(order)]) |->
              AppendComponent(Head(order), batch.go[Head(order)][i])]
         \o AppendRecords(batch, Tail(order))

\* renderer_state.0.update_from(updates)
UpdateFrom(st, batch) ==
    [st EXCEPT
        !.last_write =
            [k \in (DOMAIN st.last_write) \cup (DOMAIN batch.lww) |->
                IF k \in DOMAIN batch.lww
                   /\ LwwAccepts(st, k, batch.lww[k].timestamp)
                THEN batch.lww[k] ELSE st.last_write[k]],
        !.go =
            [k \in (DOMAIN st.go) \cup (DOMAIN batch.go) |->
                ListOf(st.go, k) \o ListOf(batch.go, k)]]

NoRendererStore == [present |-> FALSE, store |-> EmptyStore]
NothingReceived == [is_some |-> FALSE, closed |-> FALSE]

RecvInit ==
    /\ to_scene = <<>>
    /\ sender_dropped = FALSE
    /\ global_chan = <<>>
    /\ lagged = FALSE
    /\ global_closed = FALSE
    /\ global_sends = 0
    /\ recv_pc = "idle"
    /\ recvs = 0
    /\ shutting_down = FALSE
    /\ renderer_store = NoRendererStore
    /\ recv_results = <<>>
    /\ recv_got = NothingReceived

\* the renderer sends a batch to the scene
RendererSends(batch) ==
    /\ ~sender_dropped
    /\ Len(to_scene) < ChanCap
    /\ to_scene' = Append(to_scene, batch)
    /\ UNCHANGED <<sender_dropped, global_chan, lagged, global_closed, global_sends,
                   recv_pc, recvs, shutting_down, renderer_store, recv_results,
                   recv_got, notRecv>>

\* the renderer drops the sender of the channel
RendererCloses ==
    /\ ~sender_dropped
    /\ sender_dropped' = TRUE
    /\ UNCHANGED <<to_scene, global_chan, lagged, global_closed, global_sends,
                   recv_pc, recvs, shutting_down, renderer_store, recv_results,
                   recv_got, notRecv>>

\* a global update is broadcast; a full channel overwrites its oldest message,
\* which the receiver learns as Lagged at its next try_recv
GlobalSend(bytes) ==
    /\ ~global_closed
    /\ global_sends < MaxGlobal
    /\ global_sends' = global_sends + 1
    /\ IF Len(global_chan) < GlobalCap
       THEN global_chan' = Append(global_chan, bytes) /\ UNCHANGED lagged
       ELSE global_chan' = Append(Tail(global_chan), bytes) /\ lagged' = TRUE
    /\ UNCHANGED <<to_scene, sender_dropped, global_closed,
                   recv_pc, recvs, shutting_down, renderer_store, recv_results,
                   recv_got, notRecv>>

\* the sender of the global updates is dropped
GlobalCloses ==
    /\ ~global_closed
    /\ global_closed' = TRUE
    /\ UNCHANGED <<to_scene, sender_dropped, global_chan, lagged, global_sends,
                   recv_pc, recvs, shutting_down, renderer_store, recv_results,
                   recv_got, notRecv>>

\* the op is called and awaits receiver.recv()
RecvFromRenderer ==
    /\ recv_pc = "idle"
    /\ recvs < MaxRecvs
    /\ recvs' = recvs + 1
    /\ recv_pc' = "recv"
    /\ recv_results' = <<>>
    /\ recv_got' = NothingReceived
    /\ UNCHANGED <<to_scene, sender_dropped, global_chan, lagged, global_closed,
                   global_sends, shutting_down, renderer_store, notRecv>>

\* a receive that returns from a closed channel without a word
RecvCompletesSilent ==
    /\ recv_pc = "recv"
    /\ to_scene = <<>> /\ sender_dropped
    /\ recv_results' = <<>>
    /\ recv_got' = [is_some |-> FALSE, closed |-> TRUE]
    /\ recv_pc' = "drain"
    /\ UNCHANGED <<to_scene, renderer_store, shutting_down, sender_dropped, global_chan,
                   lagged, global_closed, global_sends, recvs, notRecv>>

\* recv() yields the oldest batch of the channel, or None when the channel is
\* empty and its sender is gone; the match on the response
RecvCompletes ==
    /\ recv_pc = "recv"
    /\ IF to_scene # <<>>
       THEN /\ \E batch \in {Head(to_scene)} :
                 /\ \E lww_order \in Orders(DOMAIN batch.lww),
                       go_order \in Orders(DOMAIN batch.go) :
                        recv_results' = PutRecords(batch, lww_order)
                                        \o AppendRecords(batch, go_order)
                 /\ renderer_store' =
                        [present |-> TRUE, store |-> UpdateFrom(renderer_store.store, batch)]
                 /\ recv_got' = [is_some |-> TRUE, closed |-> FALSE, batch |-> batch,
                                 before |-> renderer_store]
            /\ to_scene' = Tail(to_scene)
            /\ UNCHANGED shutting_down
       ELSE /\ sender_dropped
            /\ shutting_down' = TRUE
            /\ recv_results' = <<>>
            /\ recv_got' = [is_some |-> FALSE, closed |-> TRUE]
            /\ UNCHANGED <<to_scene, renderer_store>>
    /\ recv_pc' = "drain"
    /\ UNCHANGED <<sender_dropped, global_chan, lagged, global_closed, global_sends,
                   recvs, notRecv>>

\* a receiver whose loop takes Lagged for the end of the queue
TryRecvLaggedEnds ==
    IF lagged THEN "Empty"
    ELSE IF global_chan # <<>> THEN "Ok"
    ELSE IF global_closed THEN "Closed"
    ELSE "Empty"

\* what one try_recv of the broadcast receiver returns
TryRecv ==
    IF lagged THEN "Lagged"
    ELSE IF global_chan # <<>> THEN "Ok"
    ELSE IF global_closed THEN "Closed"
    ELSE "Empty"

\* one pass of the loop over global_update_receiver.try_recv()
DrainGlobalUpdates ==
    /\ recv_pc = "drain"
    /\ \E next \in {TryRecv} :
          CASE next = "Ok" ->
                  /\ recv_results' = Append(recv_results, GlobalRecord(Head(global_chan)))
                  /\ global_chan' = Tail(global_chan)
                  /\ UNCHANGED <<lagged, recv_pc>>
            [] next = "Lagged" ->
                  /\ lagged' = FALSE
                  /\ UNCHANGED <<recv_results, global_chan, recv_pc>>
            [] OTHER ->
                  /\ recv_pc' = "idle"
                  /\ UNCHANGED <<recv_results, global_chan, lagged>>
    /\ UNCHANGED <<to_scene, sender_dropped, global_closed, global_sends, recvs,
                   shutting_down, renderer_store, recv_got, notRecv>>

RecvNext ==
    \/ \E batch \in RendererBatches : RendererSends(batch)
    \/ RendererCloses
    \/ \E bytes \in GlobalUpdates : GlobalSend(bytes)
    \/ GlobalCloses
    \/ RecvFromRenderer
    \/ RecvCompletes
    \/ DrainGlobalUpdates

\* ------------------------------------- RendererSceneContext: live_entities
\* live_entities holds u16::MAX entries, so its indices are 0..u16::MAX - 1
TableLen == U16_MAX
ROOT == <<0, 0>>
\* the scene entity ids the table is asked about: index and generation
Ids == {0, U16_MAX - 1, U16_MAX}
Gens == {0, 1, U16_MAX - 1, U16_MAX}
Handles == {"h1", "h2"}
NoEntity == "none"
Entry(gen, ent) == [gen |-> gen, ent |-> ent]
\* what a (u16, Option<Entity>) outside the vector may hold
EntrySet == {Entry(g, e) : g \in Gens, e \in Handles \cup {NoEntity}}

\* entity_entry / entity_entry_mut: get_unchecked, so an index that is not
\* below the length reads and writes the memory behind the vector
EntityEntry(id) == IF id < TableLen THEN live_entities[id] ELSE beyond

\* bevy_entity
BevyEntity(id, gen) ==
    IF EntityEntry(id).ent # NoEntity /\ EntityEntry(id).gen = gen
    THEN EntityEntry(id).ent
    ELSE NoEntity

\* is_dead
IsDead(id, gen) == EntityEntry(id).gen > gen

\* reuse follows the calls: stage 1 after associate((id, gen), h), stage 2
\* after a kill((id, gen)) that follows it, stage 3 after an
\* associate((id, gen + 1), h) that follows that
NoReuse == [stage |-> 0, id |-> 0, gen |-> 0, h |-> NoEntity]

\* seen_dead is the history of one id for which is_dead has been true
NoDead == [some |-> FALSE, id |-> 0, gen |-> 0]

\* RendererSceneContext::new
TableInit ==
    /\ live_entities = [i \in Ids \ {U16_MAX} |->
                            IF i = ROOT[1] THEN Entry(ROOT[2], "root")
                            ELSE Entry(0, NoEntity)]
    /\ beyond \in EntrySet
    /\ fault = "none"
    /\ reuse = NoReuse
    /\ seen_dead = NoDead

TableIdle ==
    /\ live_entities = [i \in Ids \ {U16_MAX} |->
                            IF i = ROOT[1] THEN Entry(ROOT[2], "root")
                            ELSE Entry(0, NoEntity)]
    /\ beyond = Entry(0, NoEntity)
    /\ fault = "none"
    /\ reuse = NoReuse
    /\ seen_dead = NoDead

\* the write of one entry through entity_entry_mut
WriteEntry(id, entry) ==
    IF id < TableLen
    THEN live_entities' = [live_entities EXCEPT ![id] = entry] /\ UNCHANGED beyond
    ELSE beyond' = entry /\ UNCHANGED live_entities

\* associate_bevy_entity without its second dcl_assert
AssociateAssertsGenOnly(id, gen) == EntityEntry(id).gen <= gen

\* the two dcl_assert conditions of associate_bevy_entity
AssociateAsserts(id, gen) ==
    /\ EntityEntry(id).gen <= gen
    /\ EntityEntry(id).ent = NoEntity

\* associate_bevy_entity
AssociateBevyEntity(id, gen, h) ==
    /\ fault = "none"
    /\ AssociateAsserts(id, gen)
    /\ WriteEntry(id, Entry(gen, h))
    /\ reuse' = IF reuse.stage = 2 /\ reuse.id = id /\ (reuse.gen + 1) % (U16_MAX + 1) = gen
                THEN [stage |-> 3, id |-> id, gen |-> reuse.gen, h |-> h]
                ELSE [stage |-> 1, id |-> id, gen |-> gen, h |-> h]
    /\ UNCHANGED <<fault, seen_dead, notTable>>

\* associate_bevy_entity when a dcl_assert fails: a fatal assertion
AssociateFault(id, gen) ==
    /\ fault = "none"
    /\ ~AssociateAsserts(id, gen)
    /\ fault' = "assert"
    /\ UNCHANGED <<live_entities, beyond, reuse, seen_dead, notTable>>

KillStage(id, gen) ==
    IF reuse.stage = 1 /\ reuse.id = id /\ reuse.gen = gen
    THEN [reuse EXCEPT !.stage = 2]
    ELSE NoReuse

\* set_dead; entry.0 += 1 on a u16
SetDead(id, gen) ==
    /\ fault = "none"
    /\ IF EntityEntry(id).gen # gen
       THEN UNCHANGED <<live_entities, beyond, fault>>
       ELSE IF gen < U16_MAX
       THEN WriteEntry(id, Entry(gen + 1, NoEntity)) /\ UNCHANGED fault
       ELSE \/ WriteEntry(id, Entry(0, NoEntity)) /\ UNCHANGED fault
            \/ fault' = "overflow" /\ UNCHANGED <<live_entities, beyond>>
    /\ reuse' = KillStage(id, gen)
    /\ UNCHANGED <<seen_dead, notTable>>

\* the owner of the memory behind the vector writes to it
ForeignWrite(entry) ==
    /\ fault = "none"
    /\ beyond' = entry
    /\ UNCHANGED <<live_entities, fault, reuse, seen_dead, notTable>>

\* is_dead(id) is called for an id and returns true: the id is remembered
ObserveDead(id, gen) ==
    /\ fault = "none"
    /\ ~seen_dead.some
    /\ IsDead(id, gen)
    /\ seen_dead' = [some |-> TRUE, id |-> id, gen |-> gen]
    /\ UNCHANGED <<live_entities, beyond, fault, reuse, notTable>>

TableNext ==
    \/ \E id \in Ids, gen \in Gens, h \in Handles : AssociateBevyEntity(id, gen, h)
    \/ \E id \in Ids, gen \in Gens : AssociateFault(id, gen)
    \/ \E id \in Ids, gen \in Gens : SetDead(id, gen)
    \/ \E entry \in EntrySet : ForeignWrite(entry)

\* ------------------------------------- scene loading and scene scheduling
\* the most scene root entities the world ever spawns
MaxEntities == 2
PARCEL_SIZE == 16
\* SceneLoadDistance.0, the load radius around the camera
SceneLoadDistance == 1
\* the parcels around the camera positions of Focuses
ParcelAxis == -1 .. 2
ParcelBox == ParcelAxis \X ParcelAxis
\* the focus points of the camera: inside parcel (0,0), on the border of
\* parcels (0,0) and (0,1), inside parcel (1,0), and on the border of
\* parcels (0,0) and (1,0)
Focuses == {<<8, 8>>, <<8, 16>>, <<24, 8>>, <<16, 8>>}
\* the scenes the content server knows: content hash -> definition.pointers
Catalogue == [H |-> <<<<0, 0>>, <<0, 1>>>>]
Hashes == DOMAIN Catalogue
DefinitionPointers(hash) == Catalogue[hash]
SceneRoots == 1 .. MaxEntities

\* PointerResult
Exists(hash) == [kind |-> "Exists", hash |-> hash, x |-> 0, y |-> 0]
Nothing(parcel) == [kind |-> "Nothing", hash |-> "", x |-> parcel[1], y |-> parcel[2]]
Range(f) == {f[k] : k \in DOMAIN f}

\* bimap::BiMap::insert: the pairs that hold the left or the right value
\* are overwritten
BiInsert(m, left, right) ==
    LET keep == {q \in DOMAIN m : q # left /\ m[q] # right}
    IN  [q \in keep \cup {left} |-> IF q = left THEN right ELSE m[q]]

\* a scene root entity: its SceneLoading component ("none" when absent),
\* whether it carries a RendererSceneContext, and the content hash it loads
NoScene == [life |-> "unborn", loading |-> "none", context |-> FALSE, hash |-> ""]
Despawned == [life |-> "despawned", loading |-> "none", context |-> FALSE, hash |-> ""]
Spawned(hash) == [life |-> "alive", loading |-> "SceneSpawned", context |-> FALSE,
                  hash |-> hash]
Born == {e \in SceneRoots : scene_ents[e].life # "unborn"}
\* the k-th entity spawned from the current state
NewEntity(k) == Cardinality(Born) + k

\* LoadSceneEvent
LoadSceneEvent(entity, hash) == [entity |-> entity, hash |-> hash]
NoConfig == [some |-> FALSE, scenes |-> {}]
Config(scenes) == [some |-> TRUE, scenes |-> scenes]
NoRequest == [some |-> FALSE, parcels |-> {}, task |-> "none"]

\* what a loading system finds for the asset handle of an entity in a tick:
\* still Loading; Loaded; Loaded with a definition whose id is empty; Loaded
\* while the asset collection has no value for the handle; Loaded while the
\* next content file cannot be requested; Failed; the main js Loaded while
\* scene.base of the scene.json is not of the form "x,y"
Outcomes(loading) ==
    CASE loading = "SceneEntity" ->
             {"Loading", "Loaded", "Empty", "Unresolved", "NoFile", "Failed"}
      [] loading = "SceneMeta" -> {"Loading", "Loaded", "Unresolved", "NoFile", "Failed"}
      [] loading = "Javascript" -> {"Loading", "Loaded", "Unresolved", "Failed", "BadBase"}
      [] OTHER -> {}
\* the entities a loading system iterates over
Waiting(loading) ==
    {e \in SceneRoots : scene_ents[e].life = "alive" /\ scene_ents[e].loading = loading}
\* what the asset server reports to one run of a loading system
Reports(loading) == [Waiting(loading) -> Outcomes(loading)]

\* no lookup has failed, or the failure has been followed up
NoFailure == [parcels |-> {}, retried |-> FALSE]

SceneInit ==
    /\ scene_ents = [e \in SceneRoots |-> NoScene]
    /\ live_scenes = <<>>
    /\ pointers = <<>>
    /\ load_events = <<>>
    /\ current_config = NoConfig
    /\ realm_scenes = {}
    /\ pending_realm_scenes = {}
    /\ pointer_request = NoRequest
    /\ panicked = FALSE
    /\ failed_lookup = NoFailure
    /\ stale_lookup = FALSE

\* the detached request_active_entities task finishes: with an error, with
\* the active entities of the parcels, or with an active entity one of whose
\* pointer strings is not of the form "x,y"
TaskResults == {"ok", "err", "badptr"}

TaskFinishes(result) ==
    /\ ~panicked
    /\ pointer_request.some
    /\ pointer_request.task = "running"
    /\ pointer_request' = [pointer_request EXCEPT !.task = result]
    /\ UNCHANGED <<scene_ents, live_scenes, pointers, load_events, current_config,
                   realm_scenes, pending_realm_scenes, panicked, failed_lookup, stale_lookup, notScene>>

\* load_scene_entity over the events: an event without an entity spawns one;
\* the entity gets SceneLoading::SceneEntity and the definition handle.
\* Commands::entity of an entity that no longer exists panics.
RECURSIVE ApplyLoadEvents(_, _, _)
ApplyLoadEvents(ents, events, born) ==
    IF events = <<>> THEN [ents |-> ents, panic |-> FALSE]
    ELSE LET event == Head(events)
             loading == [life |-> "alive", loading |-> "SceneEntity", context |-> FALSE,
                         hash |-> event.hash]
         IN  IF event.entity = 0
             THEN ApplyLoadEvents([ents EXCEPT ![born + 1] = loading], Tail(events), born + 1)
             ELSE IF ents[event.entity].life = "alive"
             THEN ApplyLoadEvents(
                      [ents EXCEPT ![event.entity] =
                          [@ EXCEPT !.loading = "SceneEntity", !.hash = event.hash]],
                      Tail(events), born)
             ELSE [ents |-> ents, panic |-> TRUE]

NewRoots(events) == Cardinality({k \in DOMAIN events : events[k].entity = 0})

LoadSceneEntity ==
    /\ ~panicked
    /\ load_events # <<>>
    /\ Cardinality(Born) + NewRoots(load_events) <= MaxEntities
    /\ \E result \in {ApplyLoadEvents(scene_ents, load_events, Cardinality(Born))} :
          /\ scene_ents' = result.ents
          /\ panicked' = result.panic
    /\ load_events' = <<>>
    /\ UNCHANGED <<live_scenes, pointers, current_config, realm_scenes,
                   pending_realm_scenes, pointer_request, failed_lookup, stale_lookup, notScene>>

\* load_scene_json for one entity in SceneLoading::SceneEntity
JsonSkipsMeta(ent, asset) ==
    CASE asset = "Loading" -> ent
      [] asset \in {"Failed", "Unresolved", "NoFile"} -> Despawned
      [] asset = "Empty" -> [ent EXCEPT !.loading = "none"]
      [] OTHER -> [ent EXCEPT !.loading = "Javascript"]

JsonEntity(ent, asset) ==
    CASE asset = "Loading" -> ent
      [] asset \in {"Failed", "Unresolved", "NoFile"} -> Despawned
      [] asset = "Empty" -> [ent EXCEPT !.loading = "none"]
      [] OTHER -> [ent EXCEPT !.loading = "SceneMeta"]

\* the loop over definition.pointers: every pointer goes to LiveScenes, and
\* each time definition.pointers[0] goes to ScenePointers
RECURSIVE RegisterPointers(_, _, _, _)
RegisterPointers(maps, e, hash, k) ==
    IF k > Len(DefinitionPointers(hash)) THEN maps
    ELSE RegisterPointers(
             [live |-> Put(maps.live, DefinitionPointers(hash)[k], e),
              ptrs |-> BiInsert(maps.ptrs, DefinitionPointers(hash)[1], Exists(hash))],
             e, hash, k + 1)

\* load_scene_json over the entities, in the order of the query
RECURSIVE JsonAll(_, _, _)
JsonAll(st, assets, e) ==
    IF e > MaxEntities THEN st
    ELSE IF e \in DOMAIN assets
    THEN JsonAll(
             [ents |-> [st.ents EXCEPT ![e] = JsonEntity(st.ents[e], assets[e])],
              maps |-> IF assets[e] \in {"Loaded", "NoFile"}
                       THEN RegisterPointers(st.maps, e, st.ents[e].hash, 1)
                       ELSE st.maps],
             assets, e + 1)
    ELSE JsonAll(st, assets, e + 1)

LoadSceneJson(assets) ==
    /\ ~panicked
    /\ Waiting("SceneEntity") # {}
    /\ assets \in Reports("SceneEntity")
    /\ \E result \in {JsonAll([ents |-> scene_ents,
                               maps |-> [live |-> live_scenes, ptrs |-> pointers]],
                              assets, 1)} :
          /\ scene_ents' = result.ents
          /\ live_scenes' = result.maps.live
          /\ pointers' = result.maps.ptrs
    /\ UNCHANGED <<load_events, current_config, realm_scenes, pending_realm_scenes,
                   pointer_request, panicked, failed_lookup, stale_lookup, notScene>>

\* load_scene_javascript for one entity in SceneLoading::SceneMeta
JavascriptEntity(ent, asset) ==
    CASE asset = "Loading" -> ent
      [] asset \in {"Failed", "Unresolved", "NoFile"} -> Despawned
      [] OTHER -> [ent EXCEPT !.loading = "Javascript"]

LoadSceneJavascript(assets) ==
    /\ ~panicked
    /\ Waiting("SceneMeta") # {}
    /\ assets \in Reports("SceneMeta")
    /\ scene_ents' = [e \in SceneRoots |->
                         IF e \in DOMAIN assets
                         THEN JavascriptEntity(scene_ents[e], assets[e])
                         ELSE scene_ents[e]]
    /\ UNCHANGED <<live_scenes, pointers, load_events, current_config, realm_scenes,
                   pending_realm_scenes, pointer_request, panicked, failed_lookup, stale_lookup, notScene>>

\* initialize_scene for one entity in SceneLoading::Javascript: SceneLoading is
\* removed and the RendererSceneContext is inserted
StartedKeepsLoading(ent, asset) ==
    CASE asset = "Loading" -> ent
      [] asset \in {"Failed", "Unresolved"} -> Despawned
      [] OTHER -> [ent EXCEPT !.context = TRUE]

Started(ent, asset) ==
    CASE asset = "Loading" -> ent
      [] asset \in {"Failed", "Unresolved"} -> Despawned
      [] asset = "BadBase" -> ent
      [] OTHER -> [ent EXCEPT !.loading = "none", !.context = TRUE]

\* split_once(',').unwrap() and parse::<i32>().unwrap() on meta.scene.base
BaseParsePanics(assets) == \E e \in DOMAIN assets : assets[e] = "BadBase"

InitializeScene(assets) ==
    /\ ~panicked
    /\ Waiting("Javascript") # {}
    /\ assets \in Reports("Javascript")
    /\ IF BaseParsePanics(assets)
       THEN panicked' = TRUE /\ UNCHANGED scene_ents
       ELSE /\ scene_ents' = [e \in SceneRoots |->
                                 IF e \in DOMAIN assets
                                 THEN Started(scene_ents[e], assets[e])
                                 ELSE scene_ents[e]]
            /\ UNCHANGED panicked
    /\ UNCHANGED <<live_scenes, pointers, load_events, current_config, realm_scenes,
                   pending_realm_scenes, pointer_request, failed_lookup, stale_lookup, notScene>>

\* ------------------------------------------------- MaterialDefinition
\* pbr.transparency_mode after MaterialTransparencyMode::from_i32
TransparencyModes ==
    {"MtmOpaque", "MtmAlphaTest", "MtmAlphaBlend", "MtmAlphaTestAndAlphaBlend",
     "MtmAuto", "None"}

\* the alpha_mode of MaterialDefinition::from for a Pbr material; opaque
\* tells whether base_color.a() is 1.0
AlphaModeOf(mode, opaque) ==
    CASE mode = "MtmOpaque" -> "Opaque"
      [] mode = "MtmAlphaTest" -> "Mask"
      [] mode = "MtmAlphaBlend" -> "Blend"
      [] mode = "MtmAlphaTestAndAlphaBlend" -> "unimplemented"
      [] OTHER -> IF opaque THEN "Opaque" ELSE "Blend"

\* a running scene writes a PbMaterial, which the renderer converts
UpdateMaterial(mode, opaque) ==
    /\ ~panicked
    /\ \E e \in SceneRoots : scene_ents[e].life = "alive" /\ scene_ents[e].context
    /\ panicked' = (AlphaModeOf(mode, opaque) = "unimplemented")
    /\ UNCHANGED <<scene_ents, live_scenes, pointers, load_events, current_config,
                   realm_scenes, pending_realm_scenes, pointer_request, failed_lookup,
                   stale_lookup, notScene>>

\* ---------------------------------------------- process_scene_lifecycle
NoEvent == [some |-> FALSE, scenes |-> {}]
RealmChangedEvent(scenes) == [some |-> TRUE, scenes |-> scenes]
RealmEvents == {NoEvent} \cup {RealmChangedEvent(scenes) : scenes \in SUBSET Hashes}

RECURSIVE SetToSeq(_)
SetToSeq(S) == IF S = {} THEN <<>>
               ELSE LET x == CHOOSE y \in S : TRUE IN <<x>> \o SetToSeq(S \ {x})

\* the realm change: pointers and live scenes outside the realm's scene list
\* are purged and the realm's scenes without a pointer are requested
RealmChangedRequestsAll(st, scenes) ==
    LET ptrs == Restrict(st.ptrs, {p \in DOMAIN st.ptrs :
                    st.ptrs[p].kind = "Exists" /\ st.ptrs[p].hash \in scenes})
        urns == SetToSeq(scenes)
    IN  [st EXCEPT !.ptrs = ptrs,
                   !.live = Restrict(st.live, DOMAIN ptrs),
                   !.config = Config(scenes),
                   !.realm = scenes,
                   !.pending = scenes,
                   !.events = st.events \o [k \in DOMAIN urns |-> LoadSceneEvent(0, urns[k])]]

RealmChanged(st, scenes) ==
    LET ptrs == Restrict(st.ptrs, {p \in DOMAIN st.ptrs :
                    st.ptrs[p].kind = "Exists" /\ st.ptrs[p].hash \in scenes})
        unloaded == {hash \in scenes : Exists(hash) \notin Range(ptrs)}
        urns == SetToSeq(unloaded)
    IN  [st EXCEPT !.ptrs = ptrs,
                   !.live = Restrict(st.live, DOMAIN ptrs),
                   !.config = Config(scenes),
                   !.realm = scenes,
                   !.pending = unloaded,
                   !.events = st.events \o [k \in DOMAIN urns |-> LoadSceneEvent(0, urns[k])]]

Clamp(v, lo, hi) == IF v < lo THEN lo ELSE IF v > hi THEN hi ELSE v
\* the square of the distance from the focus to the nearest point of a parcel
Distance2(parcel, focus) ==
    LET nx == Clamp(focus[1], parcel[1] * PARCEL_SIZE, (parcel[1] + 1) * PARCEL_SIZE)
        ny == Clamp(focus[2], parcel[2] * PARCEL_SIZE, (parcel[2] + 1) * PARCEL_SIZE)
    IN  (nx - focus[1]) * (nx - focus[1]) + (ny - focus[2]) * (ny - focus[2])
InRange(focus) ==
    {parcel \in ParcelBox : Distance2(parcel, focus) < SceneLoadDistance * SceneLoadDistance}

\* the parcels in the order of the loops over parcel_x and parcel_y
RECURSIVE SortParcels(_)
SortParcels(S) ==
    IF S = {} THEN <<>>
    ELSE LET m == CHOOSE p \in S : \A q \in S : p[1] < q[1] \/ (p[1] = q[1] /\ p[2] <= q[2])
         IN  <<m>> \o SortParcels(S \ {m})

\* the parcels within range of each focus, as a set and in loop order
WithinRange == [focus \in Focuses |-> InRange(focus)]
ScanOrder == [focus \in Focuses |-> SortParcels(InRange(focus))]

\* the scene_entities query: Or<(With<SceneLoading>, With<RendererSceneContext>)>
StillValid(e) ==
    /\ scene_ents[e].life = "alive"
    /\ scene_ents[e].loading # "none" \/ scene_ents[e].context

\* the commands and the event of one scene spawned in SceneLoading::SceneSpawned
SpawnScene(st, hash) ==
    [st EXCEPT !.fresh = Append(@, hash),
               !.events = Append(@, LoadSceneEvent(NewEntity(Len(st.fresh) + 1), hash))]

\* the loop over the parcels within range
RECURSIVE Scan(_, _)
Scan(parcels, st) ==
    IF parcels = <<>> THEN st
    ELSE LET parcel == Head(parcels)
         IN  Scan(Tail(parcels),
                 IF parcel \in DOMAIN st.live
                 THEN IF st.live[parcel] \in Born /\ StillValid(st.live[parcel])
                      THEN [st EXCEPT !.good = @ \cup {st.live[parcel]}]
                      ELSE st
                 ELSE IF parcel \notin DOMAIN st.ptrs
                 THEN [st EXCEPT !.required = @ \cup {parcel}]
                 ELSE IF st.ptrs[parcel].kind = "Exists"
                         /\ st.ptrs[parcel].hash \notin st.spawned
                 THEN [SpawnScene(st, st.ptrs[parcel].hash) EXCEPT
                          !.live = Put(@, parcel, NewEntity(Len(st.fresh) + 1)),
                          !.spawned = @ \cup {st.ptrs[parcel].hash}]
                 ELSE st)

\* live_scenes.retain: the entries of the entities outside good_scenes are
\* removed and their entities despawned
Teardown(st) ==
    [st EXCEPT !.live = Restrict(@, {p \in DOMAIN st.live : st.live[p] \in st.good}),
               !.despawn = {st.live[p] : p \in DOMAIN st.live} \ st.good]

\* the ActiveEntity values the content server returns for a set of parcels
ActiveEntities(parcels) ==
    SetToSeq({hash \in Hashes : Range(DefinitionPointers(hash)) \cap parcels # {}})

\* one retrieved ActiveEntity: its parcels get the pointer and the new entity
RECURSIVE InsertPointers(_, _, _, _)
InsertPointers(st, e, hash, k) ==
    IF k > Len(DefinitionPointers(hash)) THEN st
    ELSE InsertPointers(
             [st EXCEPT !.requested = @ \ {DefinitionPointers(hash)[k]},
                        !.ptrs = BiInsert(@, DefinitionPointers(hash)[k], Exists(hash)),
                        !.live = Put(@, DefinitionPointers(hash)[k], e)],
             e, hash, k + 1)

RECURSIVE Retrieved(_, _)
Retrieved(st, entities) ==
    IF entities = <<>> THEN st
    ELSE Retrieved(
             InsertPointers(SpawnScene(st, Head(entities)),
                            NewEntity(Len(st.fresh) + 1), Head(entities), 1),
             Tail(entities))

\* the remaining requested parcels are empty
InsertNothingSkips(ptrs, parcels) == ptrs

RECURSIVE InsertNothing(_, _)
InsertNothing(ptrs, parcels) ==
    IF parcels = <<>> THEN ptrs
    ELSE InsertNothing(BiInsert(ptrs, Head(parcels), Nothing(Head(parcels))), Tail(parcels))

\* the last part: start a pointer request, or process a finished one
PointerRequestCachesFailure(st, endpoint) ==
    IF ~st.request.some
    THEN LET required == st.required \ DOMAIN st.ptrs
         IN  IF required # {} /\ endpoint
             THEN [st EXCEPT !.request = [some |-> TRUE, parcels |-> required, task |-> "running"]]
             ELSE st
    ELSE IF st.request.task = "running" THEN st
    ELSE IF st.request.task = "err"
    THEN [st EXCEPT !.request = NoRequest,
                    !.ptrs = InsertNothing(@, SortParcels(st.request.parcels))]
    ELSE LET got == Retrieved([st EXCEPT !.request = NoRequest,
                                         !.requested = st.request.parcels],
                              ActiveEntities(st.request.parcels))
         IN  [got EXCEPT !.ptrs = InsertNothing(got.ptrs, SortParcels(got.requested))]

PointerRequestOverlaps(st, endpoint) ==
    IF ~st.request.some \/ st.request.task = "running"
    THEN LET required == st.required \ DOMAIN st.ptrs
         IN  IF required # {} /\ endpoint
             THEN [st EXCEPT !.request = [some |-> TRUE, parcels |-> required, task |-> "running"]]
             ELSE st
    ELSE IF st.request.task = "err" THEN [st EXCEPT !.request = NoRequest]
    ELSE LET got == Retrieved([st EXCEPT !.request = NoRequest,
                                         !.requested = st.request.parcels],
                              ActiveEntities(st.request.parcels))
         IN  [got EXCEPT !.ptrs = InsertNothing(got.ptrs, SortParcels(got.requested))]

PointerRequest(st, endpoint) ==
    IF ~st.request.some
    THEN LET required == st.required \ DOMAIN st.ptrs
         IN  IF required # {} /\ endpoint
             THEN [st EXCEPT !.request = [some |-> TRUE, parcels |-> required, task |-> "running"]]
             ELSE st
    ELSE IF st.request.task = "running" THEN st
    ELSE IF st.request.task = "err" THEN [st EXCEPT !.request = NoRequest]
    ELSE IF st.request.task = "badptr" THEN [st EXCEPT !.panic = TRUE]
    ELSE LET got == Retrieved([st EXCEPT !.request = NoRequest,
                                         !.requested = st.request.parcels],
                              ActiveEntities(st.request.parcels))
         IN  [got EXCEPT !.ptrs = InsertNothing(got.ptrs, SortParcels(got.requested))]

\* the first part: the realm change, and the scenes of the realm that have a
\* pointer leave pending_realm_scenes
RealmPart(st, event) ==
    LET changed == IF event.some THEN RealmChanged(st, event.scenes) ELSE st
    IN  [changed EXCEPT
            !.pending = {hash \in @ : Exists(hash) \notin Range(changed.ptrs)}]

\* the early return while the realm lists scenes
ReachesScan(realm) == realm.pending = {} /\ realm.config.some /\ realm.realm = {}

\* process_scene_lifecycle from the state st of its resources and Locals
LifecycleIgnoresPinned(st, event, focus, endpoint) ==
    LET realm == RealmPart(st, event)
    IN  IF ~realm.config.some
        THEN realm
        ELSE PointerRequest(Teardown(Scan(ScanOrder[focus], realm)), endpoint)

Lifecycle(st, event, focus, endpoint) ==
    LET realm == RealmPart(st, event)
    IN  IF ~ReachesScan(realm)
        THEN realm
        ELSE PointerRequest(Teardown(Scan(ScanOrder[focus], realm)), endpoint)

LifecycleState ==
    [ptrs |-> pointers, live |-> live_scenes, config |-> current_config,
     realm |-> realm_scenes, pending |-> pending_realm_scenes, events |-> load_events,
     request |-> pointer_request, good |-> {}, spawned |-> {}, required |-> {},
     fresh |-> <<>>, despawn |-> {}, requested |-> {}, panic |-> FALSE]

\* the entities after the commands of the tick: the spawned entities carry
\* SceneLoading::SceneSpawned, the entities of the teardown are despawned
EntitiesAfter(result) ==
    [e \in SceneRoots |->
        IF e \in result.despawn /\ e <= NewEntity(Len(result.fresh)) THEN Despawned
        ELSE IF e \in Born THEN scene_ents[e]
        ELSE IF e <= NewEntity(Len(result.fresh))
        THEN Spawned(result.fresh[e - Cardinality(Born)])
        ELSE NoScene]

\* the history of the failed lookup: the tick that takes a task that ended
\* with an error records its parcels; the next tick records whether it starts
\* a lookup that includes them and the tick after it forgets them
FailureAfter(result) ==
    IF pointer_request.some /\ pointer_request.task = "err" /\ ~result.request.some
    THEN [parcels |-> pointer_request.parcels, retried |-> FALSE]
    ELSE IF /\ failed_lookup.parcels # {} /\ ~failed_lookup.retried
            /\ ~pointer_request.some /\ result.request.some
            /\ failed_lookup.parcels \subseteq result.request.parcels
    THEN [failed_lookup EXCEPT !.retried = TRUE]
    ELSE NoFailure

\* the history of the lookup under way: it is stale from the tick that
\* processes a realm change while its task runs, until a tick takes it
StaleAfter(event, result) ==
    /\ pointer_request.some /\ result.request.some
    /\ stale_lookup \/ (event.some /\ pointer_request.task = "running")

\* process_scene_lifecycle with the last RealmChangedEvent of the tick, the
\* focus of the primary camera and whether active_endpoint() is Some. Every
\* system runs once per frame, so load_scene_entity has read the events of
\* one tick before the next tick; the bound on the entities is the guard on
\* the spawns of the tick.
ProcessSceneLifecycle(event, focus, endpoint) ==
    /\ ~panicked
    /\ load_events = <<>>
    /\ \E result \in {Lifecycle(LifecycleState, event, focus, endpoint)} :
          IF result.panic
          THEN /\ panicked' = TRUE
               /\ UNCHANGED <<scene_ents, live_scenes, pointers, load_events, current_config,
                              realm_scenes, pending_realm_scenes, pointer_request,
                              failed_lookup, stale_lookup>>
          ELSE /\ NewEntity(Len(result.fresh)) + NewRoots(result.events) <= MaxEntities
               /\ scene_ents' = EntitiesAfter(result)
               /\ live_scenes' = result.live
               /\ pointers' = result.ptrs
               /\ load_events' = result.events
               /\ current_config' = result.config
               /\ realm_scenes' = result.realm
               /\ pending_realm_scenes' = result.pending
               /\ pointer_request' = result.request
               /\ failed_lookup' = FailureAfter(result)
               /\ stale_lookup' = StaleAfter(event, result)
               /\ UNCHANGED panicked
    /\ UNCHANGED notScene

SceneNext ==
    \/ \E event \in RealmEvents, focus \in Focuses, endpoint \in BOOLEAN :
            ProcessSceneLifecycle(event, focus, endpoint)
    \/ LoadSceneEntity
    \/ \E assets \in Reports("SceneEntity") : LoadSceneJson(assets)
    \/ \E assets \in Reports("SceneMeta") : LoadSceneJavascript(assets)
    \/ \E assets \in Reports("Javascript") : InitializeScene(assets)
    \/ \E result \in TaskResults : TaskFinishes(result)
    \/ \E mode \in TransparencyModes, opaque \in BOOLEAN : UpdateMaterial(mode, opaque)

\* ------------------------------------------------------------ connect_wallet
MaxDialogs == 2
LoginChanCap == 1
Addresses == {"a1", "a2", "a3"}
LoginTypes == {"ExistingRemote", "NewRemote", "Guest"}
NoTask == [state |-> "none", kind |-> "none", address |-> "none", profile |-> FALSE]
NoDialog == [some |-> FALSE, entity |-> 0]

\* the state before the first tick: config.json holds a previous login or not
LoginInit ==
    /\ wallet_address = "none"
    /\ login_task = NoTask
    /\ login_receiver = FALSE
    /\ login_chan = <<>>
    /\ login_dialog = NoDialog
    /\ dialog_shown = <<>>
    /\ current_profile = "none"
    /\ config_login = "none"
    /\ login_toast = "none"
    /\ exited = "no"

LoginStart ==
    /\ wallet_address = "none"
    /\ login_task = NoTask
    /\ login_receiver = FALSE
    /\ login_chan = <<>>
    /\ login_dialog = NoDialog
    /\ dialog_shown = <<>>
    /\ current_profile = "none"
    /\ config_login \in {"none"} \cup Addresses
    /\ login_toast = "none"
    /\ exited = "no"

\* commands.get_entity(d) .. despawn_recursive() on the dialog Local
DespawnedDialog(shown, dialog) ==
    [i \in DOMAIN shown |->
        IF dialog.some /\ i = dialog.entity THEN [shown[i] EXCEPT !.alive = FALSE] ELSE shown[i]]

DialogShown == \E i \in DOMAIN dialog_shown : dialog_shown[i].alive

\* "handle task results": what the tick does with the task Local
AfterTask(write_ok) ==
    IF login_task.state = "ok"
    THEN [task |-> NoTask,
          wallet |-> login_task.address,
          config |-> IF write_ok THEN login_task.address ELSE config_login,
          profile |-> IF login_task.profile THEN "loaded" ELSE "default",
          toast |-> IF login_task.profile THEN "Profile loaded" ELSE "Failed to load profile"]
    ELSE [task |-> IF login_task.state = "err" THEN NoTask ELSE login_task,
          wallet |-> wallet_address,
          config |-> config_login,
          profile |-> current_profile,
          toast |-> login_toast]

\* one run of the system
ConnectWallet(write_ok) ==
    /\ exited = "no"
    /\ IF wallet_address # "none"
       THEN \* cleanup if we're done
            /\ dialog_shown' = DespawnedDialog(dialog_shown, login_dialog)
            /\ login_dialog' = NoDialog
            /\ login_receiver' = FALSE
            /\ login_chan' = <<>>
            /\ login_task' = NoTask
            /\ UNCHANGED <<wallet_address, current_profile, config_login, login_toast, exited>>
       ELSE IF ~login_dialog.some /\ login_task.state = "none"
       THEN \* create dialog
            /\ Len(dialog_shown) < MaxDialogs
            /\ login_receiver' = TRUE
            /\ login_chan' = <<>>
            /\ dialog_shown' = Append(dialog_shown, [alive |-> TRUE, reuse |-> config_login # "none"])
            /\ login_dialog' = [some |-> TRUE, entity |-> Len(dialog_shown) + 1]
            /\ UNCHANGED <<wallet_address, login_task, current_profile, config_login,
                           login_toast, exited>>
       ELSE LET t == AfterTask(write_ok) IN
            IF ~login_receiver
            THEN \* receiver.as_mut().unwrap() on None
                 /\ exited' = "panic"
                 /\ login_task' = t.task
                 /\ wallet_address' = t.wallet
                 /\ config_login' = t.config
                 /\ current_profile' = t.profile
                 /\ login_toast' = t.toast
                 /\ UNCHANGED <<login_receiver, login_chan, login_dialog, dialog_shown>>
            ELSE IF login_chan = <<>>
            THEN \* try_recv gives Empty or Disconnected
                 /\ login_task' = t.task
                 /\ wallet_address' = t.wallet
                 /\ config_login' = t.config
                 /\ current_profile' = t.profile
                 /\ login_toast' = t.toast
                 /\ UNCHANGED <<login_receiver, login_chan, login_dialog, dialog_shown, exited>>
            ELSE \* handle click: the dialog entity goes, the dialog Local stays
                 /\ login_chan' = Tail(login_chan)
                 /\ dialog_shown' = DespawnedDialog(dialog_shown, login_dialog)
                 /\ config_login' = t.config
                 /\ UNCHANGED <<login_receiver, login_dialog>>
                 /\ IF Head(login_chan) = "ExistingRemote"
                    THEN IF t.config = "none"
                         THEN \* previous_login.unwrap() on None
                              /\ exited' = "panic"
                              /\ login_task' = t.task
                              /\ wallet_address' = t.wallet
                              /\ current_profile' = t.profile
                              /\ login_toast' = t.toast
                         ELSE /\ login_task' = [state |-> "running", kind |-> "ExistingRemote",
                                                address |-> t.config, profile |-> FALSE]
                              /\ wallet_address' = t.wallet
                              /\ current_profile' = t.profile
                              /\ login_toast' = t.toast
                              /\ UNCHANGED exited
                    ELSE IF Head(login_chan) = "NewRemote"
                    THEN /\ login_task' = [state |-> "running", kind |-> "NewRemote",
                                           address |-> "none", profile |-> FALSE]
                         /\ wallet_address' = t.wallet
                         /\ current_profile' = t.profile
                         /\ login_toast' = t.toast
                         /\ UNCHANGED exited
                    ELSE /\ login_task' = t.task
                         /\ wallet_address' = "guest"
                         /\ current_profile' = "default"
                         /\ login_toast' = "Warning: Guest profile will not persist"
                         /\ UNCHANGED exited
    /\ UNCHANGED notLogin

ConnectWalletTick == \E write_ok \in BOOLEAN : ConnectWallet(write_ok)

\* a button of a dialog on screen is pressed: blocking_send on its sender
Click(i, login) ==
    /\ exited = "no"
    /\ i \in DOMAIN dialog_shown
    /\ dialog_shown[i].alive
    /\ login = "ExistingRemote" => dialog_shown[i].reuse
    /\ login_dialog.some /\ login_dialog.entity = i /\ login_receiver
    /\ Len(login_chan) < LoginChanCap
    /\ login_chan' = Append(login_chan, login)
    /\ UNCHANGED <<wallet_address, login_task, login_receiver, login_dialog, dialog_shown,
                   current_profile, config_login, login_toast, exited, notLogin>>

\* the "Quit" button of a dialog on screen: std::process::exit(0)
Quit ==
    /\ exited = "no"
    /\ DialogShown
    /\ exited' = "quit"
    /\ UNCHANGED <<wallet_address, login_task, login_receiver, login_chan, login_dialog,
                   dialog_shown, current_profile, config_login, login_toast, notLogin>>

\* the spawned task finishes: the previous login always gives Ok, the browser
\* login (try_create_remote_ephemeral) gives Ok or Err
TaskCompletes(ok, address, profile) ==
    /\ exited = "no"
    /\ login_task.state = "running"
    /\ login_task.kind = "ExistingRemote" => ok /\ address = login_task.address
    /\ ~ok => ~profile /\ address = "a1"
    /\ login_task' = [login_task EXCEPT !.state = IF ok THEN "ok" ELSE "err",
                                        !.address = IF ok THEN address ELSE "none",
                                        !.profile = profile]
    /\ UNCHANGED <<wallet_address, login_receiver, login_chan, login_dialog, dialog_shown,
                   current_profile, config_login, login_toast, exited, notLogin>>

LoginNext ==
    \/ ConnectWalletTick
    \/ \E i \in 1..MaxDialogs, login \in LoginTypes : Click(i, login)
    \/ Quit
    \/ \E ok \in BOOLEAN, address \in Addresses, profile \in BOOLEAN :
           TaskCompletes(ok, address, profile)

\* ----------------------------------------------------------- layout_scene_ui
MaxUiNodes == 2
UiIds == {ROOT, <<1, 0>>, <<2, 0>>, <<3, 0>>}
UiTransforms == [parent : UiIds, right_of : UiIds]
NoUi == [id \in {} |-> [parent |-> ROOT, right_of |-> ROOT]]
\* processed_nodes after the insert of the root node
RootProcessed == [id \in {ROOT} |-> 0]

\* no layout under way
UiIdle ==
    /\ collected = NoUi
    /\ unprocessed_uis = NoUi
    /\ processed_nodes = RootProcessed
    /\ modified = FALSE
    /\ layout_pc = "done"
    /\ placements = <<>>
    /\ passes = 0

\* the state at "let mut modified = true": the nodes collected from
\* ui_data.nodes by scene id, any parent and right_of
UiStart ==
    /\ \E S \in SUBSET UiIds :
           /\ Cardinality(S) <= MaxUiNodes
           /\ collected \in [S -> UiTransforms]
    /\ unprocessed_uis = collected
    /\ processed_nodes = RootProcessed
    /\ modified = TRUE
    /\ layout_pc = "loop"
    /\ placements = <<>>
    /\ passes = 0

\* the retain closure without its right_of check
CanPlaceParentOnly(ui_transform, processed) ==
    ui_transform.parent \in DOMAIN processed

\* the two early returns of the retain closure
CanPlace(ui_transform, processed) ==
    /\ ui_transform.right_of \in DOMAIN processed
    /\ ui_transform.parent \in DOMAIN processed

\* the retain closure on one entry of unprocessed_uis
RetainOne(scene_id, st) ==
    IF ~CanPlace(unprocessed_uis[scene_id], st.processed)
    THEN st
    ELSE [processed |->
              [id \in (DOMAIN st.processed) \cup {scene_id} |->
                  IF id = scene_id THEN Len(st.placed) + 1 ELSE st.processed[id]],
          placed |-> Append(st.placed,
                            [id |-> scene_id,
                             parent |-> st.processed[unprocessed_uis[scene_id].parent]]),
          removed |-> st.removed \cup {scene_id},
          modified |-> TRUE]

\* unprocessed_uis.retain(..) in the iteration order of the HashMap
RECURSIVE RetainPass(_, _, _)
RetainPass(visit, i, st) ==
    IF i > Len(visit) THEN st
    ELSE RetainPass(visit, i + 1, RetainOne(visit[i], st))

\* one pass of "while modified && !unprocessed_uis.is_empty()"
LayoutPass(visit) ==
    /\ layout_pc = "loop"
    /\ modified
    /\ DOMAIN unprocessed_uis # {}
    /\ LET st == RetainPass(visit, 1, [processed |-> processed_nodes, placed |-> placements,
                                       removed |-> {}, modified |-> FALSE]) IN
       /\ processed_nodes' = st.processed
       /\ placements' = st.placed
       /\ modified' = st.modified
       /\ unprocessed_uis' = [id \in (DOMAIN unprocessed_uis) \ st.removed |-> unprocessed_uis[id]]
    /\ passes' = passes + 1
    /\ UNCHANGED <<collected, layout_pc, notUi>>

\* the loop condition fails: relayout = false, current_node = Some(root)
LayoutEnds ==
    /\ layout_pc = "loop"
    /\ ~(modified /\ DOMAIN unprocessed_uis # {})
    /\ layout_pc' = "done"
    /\ UNCHANGED <<collected, unprocessed_uis, processed_nodes, modified, placements,
                   passes, notUi>>

UiNext ==
    \/ \E visit \in Orders(DOMAIN unprocessed_uis) : LayoutPass(visit)
    \/ LayoutEnds

\* ------------------------------------------------------- the specifications
\* associate_bevy_entity and set_dead calls on one live-entity table
InitTable == TableInit /\ LwwIdle /\ ConvIdle /\ StoreInit /\ CodecIdle /\ EngineInit /\ SceneInit /\ RecvInit /\ LoginInit /\ UiIdle
SpecTable == InitTable /\ [][TableNext]_vars

\* the same calls, with one is_dead call whose result is remembered
TableObservedNext ==
    \/ TableNext
    \/ \E id \in Ids, gen \in Gens : ObserveDead(id, gen)
SpecTableObserved == InitTable /\ [][TableObservedNext]_vars

\* batches sent by the scenes through op_crdt_send_to_renderer
InitEngine == EngineInit /\ LwwIdle /\ ConvIdle /\ StoreInit /\ CodecIdle /\ TableIdle /\ SceneInit /\ RecvInit /\ LoginInit /\ UiIdle
SpecEngine == InitEngine /\ [][EngineNext]_vars

\* calls of op_crdt_recv_from_renderer of one scene; the await resumes when
\* recv() has a result and the drain loop runs on
InitRecv == RecvInit /\ LwwIdle /\ ConvIdle /\ StoreInit /\ CodecIdle /\ EngineInit /\ TableIdle /\ SceneInit /\ LoginInit /\ UiIdle
SpecRecv == InitRecv /\ [][RecvNext]_vars /\ WF_vars(RecvCompletes) /\ WF_vars(DrainGlobalUpdates)

\* one record encoded, possibly damaged, and decoded
InitCodec == CodecInit /\ LwwIdle /\ ConvIdle /\ StoreInit /\ EngineInit /\ TableIdle /\ SceneInit /\ RecvInit /\ LoginInit /\ UiIdle
SpecCodec == InitCodec /\ [][CodecNext]_vars

\* apply_lww calls on one register of a CrdtStore
InitLww == LwwInit /\ ConvIdle /\ StoreInit /\ CodecIdle /\ EngineInit /\ TableIdle /\ SceneInit /\ RecvInit /\ LoginInit /\ UiIdle
SpecLww == InitLww /\ [][LwwNext]_vars

\* apply_lww, apply_go and take_updates calls on one CrdtStore
InitStore == StoreInit /\ LwwIdle /\ ConvIdle /\ CodecIdle /\ EngineInit /\ TableIdle /\ SceneInit /\ RecvInit /\ LoginInit /\ UiIdle
SpecStore == InitStore /\ [][StoreNext]_vars

\* the loading systems and process_scene_lifecycle, with the asset server and
\* the pointer lookup task as the environment
InitScene == SceneInit /\ LwwIdle /\ ConvIdle /\ StoreInit /\ CodecIdle /\ EngineInit /\ TableIdle /\ RecvInit /\ LoginInit /\ UiIdle
SpecScene == InitScene /\ [][SceneNext]_vars

\* two CrdtStore replicas delivered one set of updates in any two orders
InitConv == ConvInit /\ LwwIdle /\ StoreInit /\ CodecIdle /\ EngineInit /\ TableIdle /\ SceneInit /\ RecvInit /\ LoginInit /\ UiIdle
SpecConv == InitConv /\ [][ConvNext]_vars

\* connect_wallet runs every frame (add_systems(Update, connect_wallet))
InitLogin == LoginStart /\ LwwIdle /\ ConvIdle /\ StoreInit /\ CodecIdle /\ EngineInit /\ TableIdle /\ SceneInit /\ RecvInit /\ UiIdle
SpecLogin == InitLogin /\ [][LoginNext]_vars /\ WF_vars(ConnectWalletTick)

\* the loop runs to its end inside one run of layout_scene_ui
InitUi == UiStart /\ LwwIdle /\ ConvIdle /\ StoreInit /\ CodecIdle /\ EngineInit /\ TableIdle /\ SceneInit /\ RecvInit /\ LoginInit
SpecUi == InitUi /\ [][UiNext]_vars /\ WF_vars(UiNext)

\* ------------------------------------------------------------ C2 and C4
MaxTimestamp(cs) ==
    CHOOSE t \in {cs[i].timestamp : i \in 1..Len(cs)} :
        \A i \in 1..Len(cs) : cs[i].timestamp <= t

\* the last call, in call order, among those that carry the maximum timestamp
LastMax(cs) ==
    CHOOSE i \in 1..Len(cs) :
        /\ cs[i].timestamp = MaxTimestamp(cs)
        /\ \A j \in (i + 1)..Len(cs) : cs[j].timestamp < MaxTimestamp(cs)

Holds(store, key, call) ==
    /\ key \in DOMAIN store.last_write
    /\ store.last_write[key].timestamp = call.timestamp
    /\ store.last_write[key].is_some = call.data.is_some
    /\ call.data.is_some => store.last_write[key].data = call.data.v

\* C2: after every sequence of apply_lww calls on one entity+component the
\* stored value is that of the call with the maximum timestamp, and among
\* several calls with that timestamp the last one in call order.
C2_LastMaxWins ==
    calls # <<>> => Holds(lww_store, lww_key, calls[LastMax(calls)])

\* timestamps [1,0,2,2] (the shape of [3,1,5,5]) with distinct payloads on the
\* two maxima: the payload of the second one is stored
C2_Witness ==
    /\ Len(calls) = 4
    /\ [i \in 1..4 |-> calls[i].timestamp] = <<1, 0, 2, 2>>
    /\ calls[3].data # calls[4].data
    /\ calls[4].data.is_some
    /\ lww_store.last_write[lww_key].data = calls[4].data.v

IsTombstone(store, key) ==
    key \in DOMAIN store.last_write /\ ~store.last_write[key].is_some

\* C4: a write that arrives with a timestamp strictly below that of the
\* stored tombstone leaves the entry a tombstone with the same timestamp.
C4_NoResurrection ==
    (/\ calls # <<>>
     /\ IsTombstone(lww_last.before, lww_key)
     /\ calls[Len(calls)].timestamp < lww_last.before.last_write[lww_key].timestamp)
    => /\ IsTombstone(lww_store, lww_key)
       /\ lww_store.last_write[lww_key].timestamp
            = lww_last.before.last_write[lww_key].timestamp

\* a value written with a stale timestamp onto a tombstone was rejected
C4_Witness ==
    /\ calls # <<>>
    /\ IsTombstone(lww_last.before, lww_key)
    /\ calls[Len(calls)].timestamp < lww_last.before.last_write[lww_key].timestamp
    /\ calls[Len(calls)].data.is_some
    /\ ~lww_last.accepted

\* ------------------------------------------------------------------- C3
LastOp == IF last_ops = <<>> THEN "none" ELSE last_ops[Len(last_ops)]
PrevOp == IF Len(last_ops) < 2 THEN "none" ELSE last_ops[Len(last_ops) - 1]

\* the LWW part of a batch holds exactly the keys of d, each with d's value
SameLww(batch, d) ==
    /\ DOMAIN batch.lww = DOMAIN d
    /\ \A k \in DOMAIN d :
        /\ batch.lww[k].timestamp = d[k].timestamp
        /\ batch.lww[k].is_some = d[k].data.is_some
        /\ d[k].data.is_some => batch.lww[k].data = d[k].data.v

\* C3: every GO payload appended is returned by exactly one take_updates
\* call, in append order; every pair written by LWW since the previous drain
\* is returned with its most recent accepted value; a take_updates call that
\* directly follows another returns an empty batch.
C3_ExactlyOnce ==
    /\ \A k \in GoKeys : go_returned[k] \o ListOf(crdt_store.go_new, k) = go_appended[k]
    /\ LastOp = "take_updates" =>
        /\ \A k \in GoKeys : go_returned[k] = go_appended[k]
        /\ SameLww(taken, due_at_take)
    /\ (LastOp = "take_updates" /\ PrevOp = "take_updates") => taken = EmptyBatch

\* two appends to one key were returned in order by one take_updates, together
\* with an LWW value, and the take_updates after it returned nothing
C3_Witness ==
    /\ LastOp = "take_updates" /\ PrevOp = "take_updates"
    /\ \E k \in GoKeys : Len(go_returned[k]) = 2 /\ go_returned[k][1] # go_returned[k][2]
    /\ taken = EmptyBatch

\* ------------------------------------------------------------ C8 and C9
\* C8: decoding the encoding of a record yields the same entity id,
\* generation, component id, crdt_kind and payload, and consumes exactly the
\* bytes the encoder produced, whatever follows them in the buffer.
C8_RoundTrip ==
    (codec_pc = "decoded" /\ tampered = "none") =>
        /\ decoded.tag = "record"
        /\ decoded.record = rec
        /\ decoded.consumed = Len(EncodeRecord(rec))
        /\ decoded.consumed = Len(wire) \/ decoded.consumed = Len(wire) - 2

\* a record with an empty payload, a two-byte entity id and a four-byte
\* component id came back from a buffer that holds more bytes after it
C8_Witness ==
    /\ codec_pc = "decoded" /\ tampered = "none"
    /\ rec.payload = <<>> /\ rec.entity = <<513, 258>> /\ rec.component = BIG_U32
    /\ decoded.tag = "record" /\ decoded.record = rec
    /\ decoded.consumed < Len(wire)

HeaderLength(buf) == buf[1] + 256 * buf[2] + 65536 * buf[3] + 16777216 * buf[4]
IsInsufficient(buf) == Len(buf) < CRDT_HEADER_SIZE
IsCorrupt(buf) ==
    /\ Len(buf) >= CRDT_HEADER_SIZE
    /\ \/ HeaderLength(buf) > Len(buf) - CRDT_HEADER_SIZE
       \/ buf[CRDT_HEADER_SIZE] \notin {KIND_LWW, KIND_GO}

\* C9: every buffer gets exactly one of three outcomes: a complete record;
\* insufficient data (fewer bytes than a header), which is no error; corrupt
\* data (a header length beyond the buffer, or an unrecognized crdt_kind).
C9_ThreeOutcomes ==
    codec_pc = "decoded" =>
        /\ decoded.tag \in {"record", "insufficient", "corrupt"}
        /\ decoded.tag = "insufficient" <=> IsInsufficient(wire)
        /\ decoded.tag = "corrupt" <=> IsCorrupt(wire)
        /\ decoded.tag = "record" <=> (~IsInsufficient(wire) /\ ~IsCorrupt(wire))
        /\ ~(IsInsufficient(wire) /\ IsCorrupt(wire))

\* a buffer whose length fits and whose crdt_kind is unknown was found corrupt
C9_Witness ==
    /\ codec_pc = "decoded" /\ tampered = "kind"
    /\ decoded.tag = "corrupt"
    /\ HeaderLength(wire) <= Len(wire) - CRDT_HEADER_SIZE

\* a buffer cut inside its header was found insufficient
C9_WitnessInsufficient ==
    /\ codec_pc = "decoded" /\ tampered = "truncated"
    /\ decoded.tag = "insufficient" /\ Len(wire) > 0

\* a buffer cut inside its payload was found corrupt
C9_WitnessCutPayload ==
    /\ codec_pc = "decoded" /\ tampered = "truncated"
    /\ decoded.tag = "corrupt"

\* ------------------------------------------------------------ C5 and C7
KeysOfBatch(batch) == (DOMAIN batch.lww) \cup (DOMAIN batch.go)
KeysOfStore(st) ==
    (DOMAIN st.last_write) \cup st.updates \cup (DOMAIN st.go) \cup (DOMAIN st.go_new)

\* C5: the response of a send carries no update of an entity that its own
\* census lists as died, and the store of the sending scene keeps no LWW or
\* GO entry of such an entity.
C5_NoUpdatesForDied ==
    response # NoResponse =>
        /\ \A k \in KeysOfBatch(response.updates) : k[2] \notin response.census.died
        /\ \A k \in KeysOfStore(scene_store[response.scene]) :
                k[2] \notin response.census.died

Writes(items, e) ==
    \E i \in 1..Len(items) : items[i].k \in {"lww", "go"} /\ items[i].entity = e

\* a batch wrote to E1 and to E2, the census lists E1 as died, and the
\* response carries the update of E2 alone
C5_Witness ==
    /\ response # NoResponse
    /\ response.census.died = {E1}
    /\ Writes(sent.items, E1) /\ Writes(sent.items, E2)
    /\ KeysOfBatch(response.updates) = {<<GoComponent, E2>>}

\* the items of a batch that come before its first malformed record
RECURSIVE ValidPrefix(_)
ValidPrefix(items) ==
    IF items = <<>> \/ Head(items).k = "badkind" THEN <<>>
    ELSE <<Head(items)>> \o ValidPrefix(Tail(items))

\* what the items do to a store when they are applied one after the other
RECURSIVE ApplyItems(_, _)
ApplyItems(st, items) ==
    IF items = <<>> THEN st
    ELSE LET item == Head(items)
             next == CASE item.k = "lww" ->
                            ApplyLww(st, <<LwwComponent, item.entity>>, item.timestamp,
                                     item.data)
                       [] item.k = "go" ->
                            ApplyGo(st, <<GoComponent, item.entity>>, item.data.v)
                       [] OTHER -> st
         IN  ApplyItems(next, Tail(items))

HasMalformed(items) == \E i \in 1..Len(items) : items[i].k = "badkind"

C10_GenerationReuse ==
    reuse.stage = 3 =>
        /\ BevyEntity(reuse.id, reuse.gen) = NoEntity
        /\ BevyEntity(reuse.id, (reuse.gen + 1) % (U16_MAX + 1)) = reuse.h
        /\ IsDead(reuse.id, reuse.gen)

\* the same for the indices inside the table and the generations below u16::MAX
C10_GenerationReuseInside ==
    (reuse.stage = 3 /\ reuse.id < TableLen /\ reuse.gen < U16_MAX) =>
        /\ BevyEntity(reuse.id, reuse.gen) = NoEntity
        /\ BevyEntity(reuse.id, reuse.gen + 1) = reuse.h
        /\ IsDead(reuse.id, reuse.gen)

\* ------------------------------------------------------------------ C11
\* the slot of the table an index names, when the table has one
HasSlot(id) == id \in DOMAIN live_entities
\* what the table stores for (id, gen): the handle of the slot when the
\* stored generation is gen, nothing otherwise
StoredHandle(id, gen) ==
    IF HasSlot(id) /\ live_entities[id].gen = gen
    THEN live_entities[id].ent
    ELSE NoEntity

\* C11: in every reachable table state and for every scene entity id,
\* bevy_entity returns the handle of the slot if and only if the stored
\* generation of the slot equals the requested generation, and None in
\* every other case.
C11_Lookup ==
    \A id \in Ids, gen \in Gens : BevyEntity(id, gen) = StoredHandle(id, gen)

\* the same for the indices inside the table
C11_LookupInside ==
    \A id \in Ids \cap DOMAIN live_entities, gen \in Gens :
        /\ BevyEntity(id, gen) = StoredHandle(id, gen)
        /\ BevyEntity(id, gen) # NoEntity => live_entities[id].gen = gen

\* ------------------------------------------------------------------ C12
\* the slots other than id are the same after the step
OthersUnchanged(id) ==
    /\ \A i \in DOMAIN live_entities \ {id} : live_entities'[i] = live_entities[i]
    /\ id < TableLen => beyond' = beyond
TableUnchanged == live_entities' = live_entities /\ beyond' = beyond
EntityEntryAfter(id) == IF id < TableLen THEN live_entities'[id] ELSE beyond'

\* what kill((id, gen)) is said to do to the table
KillEffect(id, gen) ==
    IF EntityEntry(id).gen = gen
    THEN /\ EntityEntryAfter(id) = Entry(gen + 1, NoEntity)
         /\ OthersUnchanged(id)
         /\ fault' = "none"
    ELSE TableUnchanged

\* C12: set_dead with the stored generation equal to the id's generation
\* increments the stored generation and clears the handle of that one slot;
\* with a different generation it leaves the whole table unchanged; and a
\* second set_dead of the same id finds a different generation, so applying
\* it twice gives the table of applying it once.
C12_Kill ==
    [][\A id \in Ids, gen \in Gens :
          SetDead(id, gen) =>
              /\ KillEffect(id, gen)
              /\ EntityEntryAfter(id).gen # gen]_vars

\* the same for the generations below u16::MAX
C12_KillBelowMax ==
    [][\A id \in Ids, gen \in Gens \ {U16_MAX} :
          SetDead(id, gen) =>
              /\ KillEffect(id, gen)
              /\ EntityEntryAfter(id).gen # gen]_vars

\* ------------------------------------------------------------------ C13
\* C13: over every sequence of associate and kill operations the stored
\* generation of every slot never decreases, for every u16 generation,
\* a kill at generation 65535 included.
C13_GenerationsIncrease ==
    [][\A i \in DOMAIN live_entities :
          live_entities'[i].gen >= live_entities[i].gen]_vars

\* ------------------------------------------------------------------ C14
\* C14: for every scene entity id, associate and kill access a slot whose
\* index is strictly less than the length of the table, so no operation of
\* the table touches the memory behind the vector.
C14_AccessInside ==
    [][/\ \A id \in Ids, gen \in Gens :
             (SetDead(id, gen) \/ AssociateFault(id, gen)
                 \/ \E h \in Handles : AssociateBevyEntity(id, gen, h))
             => id < TableLen
       /\ beyond' # beyond => \E entry \in EntrySet : ForeignWrite(entry)]_vars

\* ------------------------------------------------------------------ C15
\* C15: a fresh context has ROOT at generation 0 mapped to the root handle,
\* and after every sequence of associate and kill operations, kill(ROOT)
\* included, lookup(ROOT) is the root handle and is_dead(ROOT) is false.
C15_RootNeverDies ==
    /\ BevyEntity(ROOT[1], ROOT[2]) = "root"
    /\ ~IsDead(ROOT[1], ROOT[2])

\* ------------------------------------------------------------------ C16
\* C16: associate on an id whose slot holds a handle, or whose generation
\* is lower than the stored one, is a fatal assertion failure: no step
\* replaces the handle of a slot by another handle, no step that installs a
\* handle lowers the generation of the slot, and after the failure the
\* table is never written again.
C16_AssociateNeverOverwrites ==
    [][/\ \A i \in DOMAIN live_entities :
             /\ live_entities[i].ent # NoEntity =>
                    live_entities'[i].ent \in {live_entities[i].ent, NoEntity}
             /\ (live_entities'[i].ent # NoEntity /\ live_entities'[i] # live_entities[i]) =>
                    live_entities'[i].gen >= live_entities[i].gen
       /\ fault = "assert" => (live_entities' = live_entities /\ fault' = "assert")]_vars

\* an associate on a slot that holds a handle has failed and the slot
\* still holds its handle at its generation
C16_Witness ==
    /\ fault = "assert"
    /\ live_entities[U16_MAX - 1].ent = "h1"
    /\ live_entities[U16_MAX - 1].gen = 1

\* ------------------------------------------------------------------ C17
LoadingSubstates == {"SceneEntity", "SceneMeta", "Javascript"}
\* an entity that is alive in one of the three loading substates
IsLoading(ent) == ent.life = "alive" /\ ent.loading \in LoadingSubstates
\* the entity advanced from its substate to the next one, and from
\* Javascript to running
Advanced(before, after) ==
    /\ after.life = "alive"
    /\ \/ before.loading = "SceneEntity" /\ after.loading = "SceneMeta" /\ ~after.context
       \/ before.loading = "SceneMeta" /\ after.loading = "Javascript" /\ ~after.context
       \/ before.loading = "Javascript" /\ after.loading = "none" /\ after.context
SchedulerTick ==
    \E event \in RealmEvents, focus \in Focuses, endpoint \in BOOLEAN :
        ProcessSceneLifecycle(event, focus, endpoint)

\* a run of the loading system of the entity's substate in which the asset
\* server reports one of the outcomes for the entity's handle
LoadingTick(e, outcomes) ==
    \/ \E assets \in Reports("SceneEntity") :
          e \in DOMAIN assets /\ assets[e] \in outcomes /\ LoadSceneJson(assets)
    \/ \E assets \in Reports("SceneMeta") :
          e \in DOMAIN assets /\ assets[e] \in outcomes /\ LoadSceneJavascript(assets)
    \/ \E assets \in Reports("Javascript") :
          e \in DOMAIN assets /\ assets[e] \in outcomes /\ InitializeScene(assets)

\* C17: a scene entity leaves a loading substate only by advancing to the
\* next substate in a tick where its asset is Loaded, or by being despawned
\* in a tick where its asset Failed or did not resolve; otherwise it stays
\* in its substate, and no substate is skipped.
C17_LoadingStateMachine ==
    [][\A e \in SceneRoots :
          (IsLoading(scene_ents[e]) /\ scene_ents'[e] # scene_ents[e]) =>
              \/ Advanced(scene_ents[e], scene_ents'[e]) /\ LoadingTick(e, {"Loaded"})
              \/ scene_ents'[e].life = "despawned"
                    /\ LoadingTick(e, {"Failed", "Unresolved"})]_vars

\* C17 as amended: the other ways out are the definition with an empty id,
\* which removes SceneLoading and keeps the entity, the despawn when the
\* next content file of a loaded asset cannot be requested, and the despawn
\* of the entity by a tick of process_scene_lifecycle.
C17_LoadingExits ==
    [][\A e \in SceneRoots :
          (IsLoading(scene_ents[e]) /\ scene_ents'[e] # scene_ents[e]) =>
              \/ Advanced(scene_ents[e], scene_ents'[e]) /\ LoadingTick(e, {"Loaded"})
              \/ scene_ents'[e].life = "despawned"
                    /\ LoadingTick(e, {"Failed", "Unresolved", "NoFile"})
              \/ scene_ents[e].loading = "SceneEntity"
                    /\ scene_ents'[e] = [scene_ents[e] EXCEPT !.loading = "none"]
                    /\ LoadingTick(e, {"Empty"})
              \/ scene_ents'[e].life = "despawned" /\ SchedulerTick]_vars

\* one scene went through the substates and runs, another was despawned
C17_Witness ==
    \E e, f \in SceneRoots :
        /\ scene_ents[e].life = "alive" /\ scene_ents[e].context /\ scene_ents[e].loading = "none"
        /\ scene_ents[f].life = "despawned"

\* ------------------------------------------------------------------ C18
\* C18: in every reachable state every coordinate that is a key of
\* LiveScenes has an Exists entry in ScenePointers, every coordinate of a
\* scene that spans several cells included.
C18_LiveScenesHavePointers ==
    \A parcel \in DOMAIN live_scenes :
        parcel \in DOMAIN pointers /\ pointers[parcel].kind = "Exists"

\* ------------------------------------------------------------------ C19
\* C19: in every reachable state every scene root entity referenced by
\* LiveScenes is in exactly one lifecycle state, Running or a later one,
\* and never in a loading substate.
C19_LiveScenesRunning ==
    \A parcel \in DOMAIN live_scenes :
        /\ scene_ents[live_scenes[parcel]].life = "alive"
        /\ scene_ents[live_scenes[parcel]].context
        /\ scene_ents[live_scenes[parcel]].loading = "none"

\* C19 as amended: every entity LiveScenes references has been spawned as a
\* scene root and never carries SceneLoading and a RendererSceneContext
\* together; it is referenced from the tick that spawns it, so it may be
\* loading, running, stopped or despawned.
C19_LiveScenesOneState ==
    \A parcel \in DOMAIN live_scenes :
        /\ live_scenes[parcel] \in Born
        /\ ~(scene_ents[live_scenes[parcel]].loading # "none"
                /\ scene_ents[live_scenes[parcel]].context)
        /\ scene_ents[live_scenes[parcel]].life = "despawned" =>
               ~scene_ents[live_scenes[parcel]].context

\* LiveScenes references a scene that runs, on both of its parcels
C19_Witness ==
    /\ Cardinality(DOMAIN live_scenes) = 2
    /\ \A p \in DOMAIN live_scenes :
          scene_ents[live_scenes[p]].context /\ scene_ents[live_scenes[p]].life = "alive"

\* LiveScenes references a scene that is still loading
C19_WitnessLoading ==
    \E p \in DOMAIN live_scenes : scene_ents[live_scenes[p]].loading = "SceneMeta"

\* LiveScenes references an entity that has been despawned
C19_WitnessDespawned ==
    \E p \in DOMAIN live_scenes : scene_ents[live_scenes[p]].life = "despawned"

\* ------------------------------------------------------------------ C20
RealmChangeTick ==
    \E scenes \in SUBSET Hashes, focus \in Focuses, endpoint \in BOOLEAN :
        ProcessSceneLifecycle(RealmChangedEvent(scenes), focus, endpoint)

\* C20: an entry of ScenePointers is added only from a completed lookup or
\* a loaded scene definition, and a coordinate that has an entry keeps the
\* same entry in every later state until the next realm change, also when
\* an entry for another coordinate is inserted.
C20_PointerCacheStable ==
    [][/\ (DOMAIN pointers' \ DOMAIN pointers # {}) =>
              \/ pointer_request.task = "ok" /\ SchedulerTick
              \/ \E assets \in Reports("SceneEntity") : LoadSceneJson(assets)
       /\ \/ \A parcel \in DOMAIN pointers :
                 parcel \in DOMAIN pointers' /\ pointers'[parcel] = pointers[parcel]
          \/ RealmChangeTick]_vars

\* ------------------------------------------------------------------ C21
\* the step hands a new request_active_entities task to pointer_request
LookupStarts ==
    /\ pointer_request'.some
    /\ pointer_request'.task = "running"
    /\ pointer_request' # pointer_request
\* the step takes the task out of pointer_request
LookupTaken == pointer_request.some /\ ~pointer_request'.some

\* C21: at most one pointer lookup is in flight: a lookup is started only by
\* a tick of process_scene_lifecycle that finds no lookup outstanding, the
\* parcels of an outstanding lookup never change, and the lookup leaves
\* pointer_request only in a tick that finds its task finished.
C21_OneLookupInFlight ==
    [][/\ LookupStarts => (~pointer_request.some /\ SchedulerTick)
       /\ (pointer_request.some /\ pointer_request'.some) =>
              pointer_request'.parcels = pointer_request.parcels
       /\ LookupTaken => (pointer_request.task \in {"ok", "err"} /\ SchedulerTick)]_vars

\* a lookup for parcel (1,0) runs after the result of an earlier lookup has
\* been written to ScenePointers
C21_Witness ==
    /\ pointer_request.some
    /\ pointer_request.task = "running"
    /\ pointer_request.parcels = {<<1, 0>>}
    /\ DOMAIN pointers # {}

\* ------------------------------------------------------------------ C22
\* the parcels cached as PointerResult::Nothing
NothingCached == {p \in DOMAIN pointers : pointers[p].kind = "Nothing"}
\* the parcels no scene of the content server lies on
WithoutScene(parcels) ==
    {p \in parcels : \A hash \in Hashes : p \notin Range(DefinitionPointers(hash))}

\* C22: the tick that processes a completed lookup caches every requested
\* parcel the result leaves without a scene as Nothing; the entry stays
\* until the next realm change, and until then no lookup that is started
\* includes the parcel.
C22_NegativeCache ==
    [][/\ (pointer_request.task = "ok" /\ LookupTaken) =>
              \A p \in WithoutScene(pointer_request.parcels) :
                  p \in DOMAIN pointers' /\ pointers'[p] = Nothing(p)
       /\ \/ /\ \A p \in NothingCached :
                    p \in DOMAIN pointers' /\ pointers'[p] = pointers[p]
             /\ LookupStarts => pointer_request'.parcels \cap NothingCached = {}
          \/ RealmChangeTick]_vars

\* parcel (1,0) is cached as Nothing and a lookup started later for parcel
\* (0,0), next to it, does not include it
C22_Witness ==
    /\ <<1, 0>> \in NothingCached
    /\ pointer_request.some
    /\ pointer_request.task = "running"
    /\ pointer_request.parcels = {<<0, 0>>}

\* ------------------------------------------------------------------ C23
\* a scene root that runs the scene of a hash
Runs(e, hash) ==
    /\ scene_ents[e].life = "alive"
    /\ scene_ents[e].context
    /\ scene_ents[e].hash = hash
\* after the realm part of the tick a scene of the realm has no pointer yet,
\* or no scene root runs it
PinnedOutstanding ==
    \/ pending_realm_scenes' # {}
    \/ \E hash \in realm_scenes' : ~\E e \in SceneRoots : Runs(e, hash)

\* C23: a tick of process_scene_lifecycle in which a scene of the realm is
\* still unresolved or unloaded spawns no scene for a parcel, starts no
\* pointer lookup and despawns no scene.
C23_PinnedBlocksProximity ==
    [][\/ /\ scene_ents' = scene_ents
          /\ \A k \in DOMAIN load_events' : load_events'[k].entity = 0
          /\ ~LookupStarts
       \/ ~PinnedOutstanding
       \/ ~SchedulerTick]_vars

\* the scene of the realm is requested and still loads its definition, and
\* ticks of the scheduler have passed since
C23_Witness ==
    /\ pending_realm_scenes = {"H"}
    /\ load_events = <<>>
    /\ \E e \in SceneRoots : scene_ents[e].life = "alive" /\ scene_ents[e].loading = "SceneEntity"
    /\ pointer_request = NoRequest
    /\ DOMAIN live_scenes = {}

\* ------------------------------------------------------------------ C24
\* the scene roots that load or run the scene of a hash
Instances(hash) ==
    {e \in SceneRoots : /\ scene_ents[e].life = "alive"
                        /\ scene_ents[e].loading # "none" \/ scene_ents[e].context
                        /\ scene_ents[e].hash = hash}

\* C24: in every reachable state at most one scene entity, loading or
\* running, exists per content hash.
C24_HashSpawnedOnce ==
    \A hash \in Hashes : Cardinality(Instances(hash)) <= 1

\* ------------------------------------------------------------------ C25
\* LiveScenes when the tick reaches live_scenes.retain
LiveAtTeardown(event, focus) ==
    Scan(ScanOrder[focus], RealmPart(LifecycleState, event)).live
\* the scene roots LiveScenes holds for a parcel within the load radius that
\* are valid scene entities or have been spawned by this tick
Required(live, focus) ==
    {live[p] : p \in {q \in WithinRange[focus] \cap DOMAIN live :
                         live[q] \in Born => StillValid(live[q])}}

\* C25: in a tick that reaches the teardown, every LiveScenes entry of a
\* scene that is no longer required is removed and its scene root
\* despawned, and every entry of a scene that is still required is kept.
C25_Teardown ==
    [][\A event \in RealmEvents, focus \in Focuses, endpoint \in BOOLEAN :
          (/\ ReachesScan(RealmPart(LifecycleState, event))
           /\ ProcessSceneLifecycle(event, focus, endpoint)) =>
              \A p \in DOMAIN LiveAtTeardown(event, focus) :
                  LET e == LiveAtTeardown(event, focus)[p]
                  IN  IF e \in Required(LiveAtTeardown(event, focus), focus)
                      THEN p \in DOMAIN live_scenes' /\ live_scenes'[p] = e
                      ELSE /\ scene_ents'[e].life = "despawned"
                           /\ p \in DOMAIN live_scenes' => live_scenes'[p] # e]_vars

\* ------------------------------------------------------------------ C26
\* what the state holds from before the tick once the realm change to the
\* scene list `scenes` is processed
PointersPurged(scenes) ==
    \A p \in DOMAIN pointers :
        (p \in DOMAIN pointers' /\ pointers'[p] = pointers[p]) =>
            (pointers[p].kind = "Exists" /\ pointers[p].hash \in scenes)
LiveScenesPurged ==
    \A p \in DOMAIN live_scenes :
        (p \in DOMAIN live_scenes' /\ live_scenes'[p] = live_scenes[p]) =>
            (p \in DOMAIN pointers /\ p \in DOMAIN pointers' /\ pointers'[p] = pointers[p])
InstancesPurged(scenes) ==
    \A e \in Born :
        (/\ scene_ents'[e].life = "alive"
         /\ scene_ents'[e].loading # "none" \/ scene_ents'[e].context) =>
            scene_ents'[e].hash \in scenes

\* C26: the tick that processes a realm change leaves no Nothing pointer
\* and no Exists pointer of a hash outside the new realm's scene list, no
\* LiveScenes coordinate without a retained pointer, and no loading or
\* running scene instance of a hash outside the list.
C26_RealmChangePurge ==
    [][\A scenes \in SUBSET Hashes, focus \in Focuses, endpoint \in BOOLEAN :
          ProcessSceneLifecycle(RealmChangedEvent(scenes), focus, endpoint) =>
              /\ PointersPurged(scenes)
              /\ LiveScenesPurged
              /\ InstancesPurged(scenes)]_vars

\* ------------------------------------------------------------------ C27
\* the scenes of a realm's list that have no Exists pointer
Unloaded(scenes) == {hash \in scenes : Exists(hash) \notin Range(pointers)}
\* the LoadSceneEvents of the tick that carry no entity and name the hash
Requests(hash) ==
    {k \in DOMAIN load_events' : load_events'[k] = LoadSceneEvent(0, hash)}

\* C27: the tick of a realm change that runs to its end sends, for any
\* camera position, one LoadSceneEvent for every scene of the realm that
\* has no Exists pointer and none for the others, and records the requested
\* scenes as pending; a scene stays pending until a tick finds a pointer
\* for its hash or the realm changes, and no other tick requests a scene of
\* the realm.
C27_RealmScenesRequested ==
    [][/\ \A scenes \in SUBSET Hashes :
              \/ panicked' \/ realm_scenes' # scenes
              \/ /\ \A hash \in Hashes :
                        Cardinality(Requests(hash)) =
                            IF hash \in Unloaded(scenes) THEN 1 ELSE 0
                 /\ pending_realm_scenes' = Unloaded(scenes)
              \/ ~\E focus \in Focuses, endpoint \in BOOLEAN :
                        ProcessSceneLifecycle(RealmChangedEvent(scenes), focus, endpoint)
       /\ \/ /\ \A hash \in Hashes : Requests(hash) = {} \/ load_events' = load_events
             /\ \A hash \in pending_realm_scenes \ pending_realm_scenes' :
                   Exists(hash) \in Range(pointers) /\ SchedulerTick
             /\ pending_realm_scenes' \subseteq pending_realm_scenes
          \/ RealmChangeTick]_vars

\* the tick of a realm change has requested scene H, which has no pointer,
\* while the camera is nowhere near a parcel with a pointer
C27_Witness ==
    /\ realm_scenes = {"H"}
    /\ pending_realm_scenes = {"H"}
    /\ load_events = <<LoadSceneEvent(0, "H")>>
    /\ DOMAIN pointers = {}

\* the realm lists scene H, which has a pointer, and H is not requested
C27_WitnessNotRequested ==
    /\ realm_scenes = {"H"}
    /\ pending_realm_scenes = {}
    /\ load_events = <<>>
    /\ Exists("H") \in Range(pointers)
    /\ \A e \in SceneRoots : scene_ents[e].life # "alive"

\* ------------------------------------------------------------------ C28
\* the parcels within the load radius that have neither a live scene nor a
\* pointer once the realm part of the tick is done
StillRequired(event, focus) ==
    LET realm == RealmPart(LifecycleState, event)
    IN  IF ReachesScan(realm)
        THEN {p \in WithinRange[focus] : p \notin DOMAIN realm.live /\ p \notin DOMAIN realm.ptrs}
        ELSE {}

\* the LoadSceneEvents of the scenes the parcel scan spawns from the cache
SpawnedByScan(event, focus) ==
    Scan(ScanOrder[focus], RealmPart(LifecycleState, event)).events

\* C28: the tick that takes a lookup that ended with an error adds no
\* pointer entry, spawns no scene for the lookup (the scenes it spawns are
\* those of its parcel scan) and leaves pointer_request empty; the
\* next tick that finds parcels of the failed lookup still required, with
\* a content endpoint to ask, starts a lookup that includes them.
C28_FailedLookupRetried ==
    [][/\ (pointer_request.task = "err" /\ LookupTaken) =>
              /\ \A p \in DOMAIN pointers' : p \in DOMAIN pointers /\ pointers'[p] = pointers[p]
              /\ pointer_request' = NoRequest
              /\ \A event \in RealmEvents, focus \in Focuses, endpoint \in BOOLEAN :
                    \/ load_events' = SpawnedByScan(event, focus)
                    \/ ~ProcessSceneLifecycle(event, focus, endpoint)
       /\ (failed_lookup.parcels # {} /\ ~failed_lookup.retried
              /\ failed_lookup' # failed_lookup) =>
              \A event \in RealmEvents, focus \in Focuses :
                  \/ event.some /\ realm_scenes' # event.scenes
                  \/ failed_lookup.parcels \cap StillRequired(event, focus) = {}
                  \/ /\ LookupStarts
                     /\ (failed_lookup.parcels \cap StillRequired(event, focus))
                            \subseteq pointer_request'.parcels
                  \/ ~ProcessSceneLifecycle(event, focus, TRUE)]_vars

\* the lookup for parcel (1,0) failed and the next tick has started it again
C28_Witness ==
    /\ failed_lookup = [parcels |-> {<<1, 0>>}, retried |-> TRUE]
    /\ pointer_request = [some |-> TRUE, parcels |-> {<<1, 0>>}, task |-> "running"]
    /\ <<1, 0>> \notin DOMAIN pointers

\* ------------------------------------------------------------------ C29
\* C29: no input supplied by one scene halts the loop: a run of
\* initialize_scene over a scene.json whose base is not "x,y", a tick that
\* reads a lookup result with a pointer string that is not "x,y", and the
\* conversion of a material with MtmAlphaTestAndAlphaBlend all complete
\* without a panic.
C29_SceneErrorsContained ==
    [][/\ \A assets \in Reports("Javascript") :
              (BaseParsePanics(assets) /\ InitializeScene(assets)) => ~panicked'
       /\ (pointer_request.task = "badptr" /\ SchedulerTick) => ~panicked'
       /\ \A opaque \in BOOLEAN :
              UpdateMaterial("MtmAlphaTestAndAlphaBlend", opaque) => ~panicked']_vars

\* ------------------------------------------------------------------ C30
\* C30: a send of a scene response that a scene issues, or that waits in
\* flight, when the renderer side has dropped the receiver of the channel
\* returns normally: the op does not fault and the OpState of the scene
\* holds the CrdtContext, the CrdtStore and the component interfaces again.
C30_SendAfterDropTolerated ==
    [][\A s \in Scenes :
          (/\ receiver_dropped
           /\ \E items \in SeqsUpTo(Items, MaxBatch), died \in SUBSET {E1, E2} :
                  SendToRenderer(s, items, died))
          => (s \notin op_panic' /\ op_state'[s] = SceneSide)]_vars

\* ------------------------------------------------------------------ C31
\* C31: the receive leaves its await only when the channel holds a batch or
\* its sender is gone; on a closed and empty channel it completes, puts
\* ShuttingDown into the OpState and returns no record of a renderer batch;
\* a receive that gets a batch leaves ShuttingDown unset; and a receive that
\* waits on a closed channel does not wait forever.
C31_ReceiveBlocksOrShutsDown ==
    /\ [][(recv_pc = "recv" /\ recv_pc' # "recv") =>
            /\ to_scene # <<>> \/ sender_dropped
            /\ to_scene = <<>> => (shutting_down' /\ recv_got'.closed /\ recv_results' = <<>>)
            /\ to_scene # <<>> => (~shutting_down' /\ recv_got'.is_some)]_vars
    /\ [](recv_got.closed =>
            \A i \in 1..Len(recv_results) : recv_results[i].op = "global")
    /\ ((recv_pc = "recv" /\ sender_dropped) ~> (recv_pc # "recv"))

\* the second receive of a scene finds the channel closed after the first one
\* got a batch: it has returned, with ShuttingDown put and a global update as
\* its only record
C31_Witness ==
    /\ recvs = 2 /\ recv_pc = "idle"
    /\ recv_got.closed /\ shutting_down
    /\ renderer_store.present
    /\ Len(recv_results) = 1

\* ------------------------------------------------------------------ C37
\* the records of a returned list that are appends to one GO key, in order
RECURSIVE AppendsTo(_, _)
AppendsTo(records, key) ==
    IF records = <<>> THEN <<>>
    ELSE (IF Head(records).op = "append" /\ Head(records).key = key
          THEN <<Head(records).data>> ELSE <<>>)
         \o AppendsTo(Tail(records), key)

\* the list starts with one put record per LWW entry of the batch, a delete
\* for a tombstone, followed by the items of every GO list in stored order
RecordsOf(records, batch) ==
    LET n == Cardinality(DOMAIN batch.lww)
    IN  /\ Len(records) >= n
        /\ {records[i].key : i \in 1..n} = DOMAIN batch.lww
        /\ \A i \in 1..n :
              /\ records[i].op = (IF batch.lww[records[i].key].is_some
                                  THEN "put" ELSE "delete")
              /\ records[i].timestamp = batch.lww[records[i].key].timestamp
              /\ records[i].data = batch.lww[records[i].key].data
        /\ \A i \in (n + 1)..Len(records) :
              records[i].op = "append" /\ records[i].key \in DOMAIN batch.go
        /\ \A key \in DOMAIN batch.go : AppendsTo(records, key) = batch.go[key]

ProximityTick(focus) ==
    \E endpoint \in BOOLEAN : ProcessSceneLifecycle(NoEvent, focus, endpoint)

\* the scheduler ticks on with the camera at each of its positions: a tick
\* that can change the state is taken
SpecSceneTicks ==
    InitScene /\ [][SceneNext]_vars /\ \A focus \in Focuses : WF_vars(ProximityTick(focus))

\* the parcel of the first pointer of the catalogue's scene; it lies within
\* the load distance of three of the positions of the camera
BaseParcel == Catalogue.H[1]

\* the realm lists scenes, each of them has its pointer, and the parcel has a
\* cached Exists pointer and no live scene
ResumeDue(parcel) ==
    /\ ~panicked
    /\ current_config # NoConfig
    /\ realm_scenes # {} /\ pending_realm_scenes = {}
    /\ \A hash \in realm_scenes : Exists(hash) \in Range(pointers)
    /\ parcel \in DOMAIN pointers /\ pointers[parcel].kind = "Exists"
    /\ parcel \notin DOMAIN live_scenes

\* C32: in a realm that lists scenes, once each of them has its pointer, a
\* parcel within the load distance that has a cached Exists pointer and no
\* live scene gets its scene spawned by a later tick, as long as the realm
\* and the pointer stay; stated for the base parcel.
C32_ProximityResumes ==
    ResumeDue(BaseParcel) ~> (BaseParcel \in DOMAIN live_scenes \/ ~ResumeDue(BaseParcel))

\* ------------------------------------------------------------------ C33
\* the scene root loads in one of the three substates or runs its scene
LoadsOrRuns(e) ==
    /\ e \in SceneRoots
    /\ scene_ents[e].life = "alive"
    /\ scene_ents[e].loading \in LoadingSubstates \/ scene_ents[e].context

\* C33: a tick without a realm change keeps every LiveScenes entry of a
\* parcel within the load radius whose scene root loads (SceneEntity,
\* SceneMeta, Javascript) or runs: the entry stays with the same scene root,
\* the root is not despawned, and no other scene is spawned for the parcel.
C33_LoadingSceneKept ==
    [][\A focus \in Focuses :
          \A p \in WithinRange[focus] \cap DOMAIN live_scenes :
              \/ ~LoadsOrRuns(live_scenes[p])
              \/ /\ p \in DOMAIN live_scenes' /\ live_scenes'[p] = live_scenes[p]
                 /\ scene_ents'[live_scenes[p]].life = "alive"
                 /\ \A i \in 1..Len(load_events') :
                       load_events'[i].entity = live_scenes[p] =>
                           i <= Len(load_events) /\ load_events[i] = load_events'[i]
              \/ ~ProximityTick(focus)]_vars

\* ------------------------------------------------------------------ C34
\* C34: the tick that takes the result of a lookup that was running when a
\* realm change was processed adds no entry to ScenePointers, none to
\* LiveScenes, and spawns no scene for the result (the scenes it spawns are
\* those of its parcel scan).
C34_NoStaleLookupResult ==
    [][(stale_lookup /\ pointer_request.task = "ok" /\ LookupTaken) =>
          /\ \A p \in DOMAIN pointers' : p \in DOMAIN pointers /\ pointers'[p] = pointers[p]
          /\ \A p \in DOMAIN live_scenes' :
                p \in DOMAIN live_scenes /\ live_scenes'[p] = live_scenes[p]
          /\ \A event \in RealmEvents, focus \in Focuses, endpoint \in BOOLEAN :
                \/ load_events' = SpawnedByScan(event, focus)
                \/ ~ProcessSceneLifecycle(event, focus, endpoint)]_vars

\* ------------------------------------------------------------------ C35
\* the LiveScenes entries of scene roots that have been despawned
Dangling == {p \in DOMAIN live_scenes :
                live_scenes[p] \in SceneRoots /\ scene_ents[live_scenes[p]].life = "despawned"}

\* a tick that runs to its end and reaches live_scenes.retain removes every
\* LiveScenes entry of a scene root that was despawned before it
TeardownClears ==
    [][\A event \in RealmEvents :
          \/ Dangling = {}
          \/ panicked'
          \/ \A p \in Dangling : p \in DOMAIN live_scenes' => live_scenes'[p] # live_scenes[p]
          \/ ~ReachesScan(RealmPart(LifecycleState, event))
          \/ ~\E focus \in Focuses, endpoint \in BOOLEAN :
                 ProcessSceneLifecycle(event, focus, endpoint)]_vars

\* C35: the LiveScenes entries of a scene root that was despawned when an
\* asset failed while it loaded are removed by the next tick that reaches
\* the teardown, and under ticks that go on no such entry stays forever.
C35_FailedSceneCleared ==
    /\ TeardownClears
    /\ (Dangling # {} ~> Dangling = {})

\* ------------------------------------------------------------------ C36
\* C36: while no assertion has failed, no id has a handle and is dead at the
\* same time, at most one generation of a slot has a handle, and an id for
\* which is_dead has been true has no handle in any later state.
C36_IdentitySafety ==
    fault = "none" =>
        /\ \A id \in Ids, gen \in Gens :
              ~(BevyEntity(id, gen) # NoEntity /\ IsDead(id, gen))
        /\ \A id \in Ids :
              Cardinality({gen \in Gens : BevyEntity(id, gen) # NoEntity}) <= 1
        /\ seen_dead.some => BevyEntity(seen_dead.id, seen_dead.gen) = NoEntity

\* ------------------------------------------------------------------ C38
\* the wallet has no address, the task Local is None and no login dialog is
\* on screen
NeedsDialog ==
    /\ exited = "no"
    /\ wallet_address = "none"
    /\ login_task.state = "none"
    /\ ~DialogShown

\* C38: login can always be retried: whenever the wallet has no address and
\* no login task is running, a login dialog is on screen or the coming ticks
\* of connect_wallet put one there; so it is after a login task ended with
\* an error.
C38_LoginCanBeRetried == NeedsDialog ~> DialogShown

\* ------------------------------------------------------------------ C39
\* the least set of ids that holds ROOT and every collected node whose parent
\* and right_of are both in it
RECURSIVE LedFromRoot(_)
LedFromRoot(P) ==
    LET Q == P \cup {id \in DOMAIN collected :
                        /\ collected[id].parent \in P
                        /\ collected[id].right_of \in P}
    IN IF Q = P THEN P ELSE LedFromRoot(Q)

\* the collected nodes whose two references lead back to ROOT
Placeable ==
    {id \in DOMAIN collected :
        /\ collected[id].parent \in LedFromRoot({ROOT})
        /\ collected[id].right_of \in LedFromRoot({ROOT})}

PlacedBefore(i) == {ROOT} \cup {placements[j].id : j \in 1..(i - 1)}

\* C39: the placement loop of layout_scene_ui ends, after at most one pass
\* more than there are nodes; a node is placed only when its parent and its
\* right_of node are placed already (ROOT counts as placed); no node is placed
\* twice; and when the loop has ended, exactly the nodes whose parent and
\* right_of references lead back to ROOT are placed, the others are still in
\* unprocessed_uis as they were collected.
C39_LayoutEndsInOrder ==
    /\ <>(layout_pc = "done")
    /\ [](/\ passes <= Cardinality(DOMAIN collected) + 1
          /\ \A i \in DOMAIN placements :
                /\ placements[i].id \in DOMAIN collected
                /\ collected[placements[i].id].parent \in PlacedBefore(i)
                /\ collected[placements[i].id].right_of \in PlacedBefore(i)
                /\ placements[i].id \in PlacedBefore(i) => placements[i].id = ROOT
                /\ \A j \in DOMAIN placements : placements[j].id = placements[i].id => j = i
          /\ layout_pc = "done" =>
                /\ {placements[i].id : i \in DOMAIN placements} = Placeable
                /\ unprocessed_uis = [id \in (DOMAIN collected) \ Placeable |-> collected[id]])

\* one node placed in the first pass, a second pass that places nothing, and
\* a node that is its own right_of left unplaced
C39_Witness ==
    /\ layout_pc = "done"
    /\ passes = 2
    /\ Len(placements) = 1
    /\ \E id \in DOMAIN unprocessed_uis :
           /\ unprocessed_uis[id].right_of = id
           /\ unprocessed_uis[id].parent = placements[1].id

====
